---- MODULE Spec2Model ----
(***************************************************************************)
(* Session lifecycle, processing tasks and strategy logic of the RAG        *)
(* multi-strategy backend (rag-orchestra).                                  *)
(*                                                                          *)
(* Spec      : the REST backend - SessionManager, RAGProcessingService and  *)
(*             the endpoints of src/api/main.py, one action per handler or  *)
(*             per resumption of a suspended coroutine.                     *)
(* SpecCapacity: the same backend with more sessions and submissions, and  *)
(*             only the steps that create, run and finish tasks.            *)
(* SpecSelect: the threshold rule of EnhancedMainOrchestrator, applied to   *)
(*             score triples drawn by the initial state.                    *)
(*                                                                          *)
(* Modelling conventions                                                    *)
(*  - scores, confidences and progress percentages are integers in          *)
(*    hundredths / percent (0.85 is 85, 5.0 % is 5);                        *)
(*  - a coroutine runs atomically between two points where it really        *)
(*    suspends (asyncio.sleep, a collaborator call, awaiting a task).       *)
(*    No session ever gets a websocket_connection (set_websocket_connection *)
(*    has no caller), so _send_websocket_update returns without suspending; *)
(*  - every update_status call of an action is kept, in order, in the       *)
(*    variable updates, so intermediate transitions are observable;         *)
(*  - the dataclasses of core/models.py are record constructors: the        *)
(*    service layer's calls UserInput(...), ValidationResult(...) and       *)
(*    TaskAnalysisResult(...) build the record from the fields they pass.   *)
(***************************************************************************)
EXTENDS Integers, Sequences, FiniteSets, TLC

\* ----------------------------------------------------------------------
\* Bounds of the model
\* ----------------------------------------------------------------------
MaxSessions == 2
MaxSubmits == 3
MaxCancels == 1
MaxHistory == 1
MaxErrors == 1
\* RAGProcessingService.max_concurrent_processing (default 5), scaled down
max_concurrent_processing == 2

\* ----------------------------------------------------------------------
\* Values
\* ----------------------------------------------------------------------
CREATED == "created"
INPUT_COLLECTION == "input_collection"
PROCESSING == "processing"
CP_ATP_GENERATION == "cp_atp_generation"
USER_VALIDATION == "user_validation"
REFINEMENT == "refinement"
COMPLETED == "completed"
ERROR == "error"

SessionStatusEnum ==
    {CREATED, INPUT_COLLECTION, PROCESSING, CP_ATP_GENERATION,
     USER_VALIDATION, REFINEMENT, COMPLETED, ERROR}

SIMPLE == "simple"
ADVANCED == "advanced"
GRAPH == "graph"
ADAPTIVE == "adaptive"

RAGStrategy == {SIMPLE, ADVANCED, GRAPH, ADAPTIVE}

\* Python None: for the slots that hold an object, and for those that hold text
None == [none |-> TRUE]
NoneStr == "None"

\* Requests a client submits: cp / atp are "" when absent (None or empty),
\* complexity is the mean of the four complexity factors in hundredths,
\* the three flags are the inputs of _calculate_confidence_score.
Requests ==
    { [cp |-> "", atp |-> "", complexity |-> 20,
       long_sub_topik |-> FALSE, menit |-> FALSE, common_subject |-> FALSE],
      [cp |-> "CP supplied", atp |-> "ATP supplied", complexity |-> 50,
       long_sub_topik |-> FALSE, menit |-> FALSE, common_subject |-> FALSE] }

\* Feedback texts, by the keywords they contain
Feedbacks == {"lebih detail"}

Validations ==
    {[is_approved |-> TRUE, feedback |-> ""]} \cup
    {[is_approved |-> FALSE, feedback |-> f] : f \in Feedbacks}

\* str(e) of an exception raised by a collaborator
ExceptionTexts == {"", "provider unavailable"}

\* ----------------------------------------------------------------------
\* State
\* ----------------------------------------------------------------------
VARIABLES
    sess,                \* SessionManager.sessions: session id -> SessionState
    current_processing,  \* RAGProcessingService.current_processing: id -> task
    tasks,               \* the asyncio tasks created for _process_session
    refines,             \* handle_user_validation coroutines suspended in refine_cp_atp
    cancels,             \* cancel_processing coroutines suspended in "await task"
    response,            \* what the last step answered to a client, if it answered
    updates,             \* update_status calls of the last action, after the state before it
    raised,              \* exception caught at the session boundary by the last action
    budget,              \* create / submit / delete calls the clients may still make
    given,               \* argument handed to a function checked on its own
    returned,            \* what that function returned
    app                  \* the command-line application: the frame of
                         \* RAGMultiStrategyApp._handle_cp_atp_generation_flow

service_vars == <<sess, current_processing, tasks, refines, cancels, response,
                  updates, raised, budget>>

vars == <<sess, current_processing, tasks, refines, cancels, response, updates,
          raised, budget, given, returned, app>>

\* what the backend's handlers never touch
aside_vars == <<given, returned, app>>

\* ----------------------------------------------------------------------
\* Helpers
\* ----------------------------------------------------------------------
Drop(f, k) == [x \in (DOMAIN f) \ {k} |-> f[x]]

RemoveAt(q, i) == [j \in 1..(Len(q) - 1) |-> IF j < i THEN q[j] ELSE q[j + 1]]

Min(a, b) == IF a <= b THEN a ELSE b

NoResponse == [op |-> "none", sid |-> 0, code |-> 0]

NoException == [sid |-> 0, where |-> "none", text |-> ""]

\* SessionState.__init__
NewSession ==
    [status |-> CREATED,
     current_step |-> "initialized",
     progress_percentage |-> 0,
     user_input |-> None,
     task_analysis |-> None,
     cp_atp_result |-> None,
     validation_history |-> <<>>,
     final_input |-> None,
     error_count |-> 0,
     last_error |-> NoneStr]

\* One update_status call
Call(status, step, progress) ==
    [status |-> status, step |-> step, progress |-> progress]

\* SessionState.update_status
update_status(r, c) ==
    [r EXCEPT !.status = c.status,
              !.current_step = c.step,
              !.progress_percentage = c.progress]

\* The state of session s before the action, then the action's calls
Trail(s, cs) ==
    <<[sid |-> s, status |-> sess[s].status,
       progress |-> sess[s].progress_percentage]>> \o
    [i \in 1..Len(cs) |->
        [sid |-> s, status |-> cs[i].status, progress |-> cs[i].progress]]

\* UserInput.has_cp_atp
has_cp_atp(u) == u.cp # "" /\ u.atp # ""

\* MainOrchestrator._analyze_task
analyze_task(u) ==
    IF u.complexity < 30
    THEN [complexity_level |-> "simple", required_rag_strategy |-> SIMPLE]
    ELSE IF u.complexity < 70
    THEN [complexity_level |-> "medium", required_rag_strategy |-> ADVANCED]
    ELSE [complexity_level |-> "complex", required_rag_strategy |-> GRAPH]

\* CPATPOrchestrator._calculate_confidence_score
calculate_confidence_score(strategy, u) ==
    LET base == CASE strategy = SIMPLE -> 70
                  [] strategy = ADVANCED -> 80
                  [] strategy = GRAPH -> 90
    IN Min(base + (IF u.long_sub_topik THEN 5 ELSE 0)
                + (IF u.menit THEN 2 ELSE 0)
                + (IF u.common_subject THEN 3 ELSE 0), 100)

\* keyword in feedback_lower
Contains(feedback, keyword) ==
    \E i \in 1..Len(feedback) :
        /\ i + Len(keyword) - 1 <= Len(feedback)
        /\ SubSeq(feedback, i, i + Len(keyword) - 1) = keyword

\* ----------------------------------------------------------------------
\* Initial state: SessionManager() and RAGProcessingService(session_manager)
\* ----------------------------------------------------------------------
ServiceInit ==
    /\ sess = <<>>
    /\ current_processing = <<>>
    /\ tasks = <<>>
    /\ refines = <<>>
    /\ cancels = <<>>
    /\ response = NoResponse
    /\ updates = <<>>
    /\ raised = NoException
    /\ budget = [create |-> MaxSessions, submit |-> MaxSubmits, cancel |-> MaxCancels,
                 history |-> MaxHistory]

Sessions == DOMAIN sess

\* A task is live from asyncio.create_task until its coroutine has finished
Live(t) == tasks[t].pc # "done"

\* A finished task: its frame, and what the frame referred to, is gone
Finished(task) ==
    [task EXCEPT !.pc = "done", !.strategy = NoneStr, !.input = None]

LiveTasksOf(s) == {t \in DOMAIN tasks : tasks[t].sid = s /\ Live(t)}

\* ----------------------------------------------------------------------
\* POST /api/sessions : SessionManager.create_session (no user_id)
\* ----------------------------------------------------------------------
create_session ==
    /\ budget.create > 0
    /\ UNCHANGED aside_vars
    /\ budget' = [budget EXCEPT !.create = @ - 1]
    /\ LET id == Cardinality(Sessions) + 1
       IN /\ sess' = sess @@ (id :> NewSession)
          /\ response' = [op |-> "create_session", sid |-> id, code |-> 200]
    /\ updates' = <<>>
    /\ raised' = NoException
    /\ UNCHANGED <<current_processing, tasks, refines, cancels>>

\* ----------------------------------------------------------------------
\* SessionManager.set_user_input
\* ----------------------------------------------------------------------
set_user_input_call == Call(INPUT_COLLECTION, "User input received", 10)

\* RAGProcessingService.start_processing: the concurrency limit check
LimitReached == Cardinality(DOMAIN current_processing) >= max_concurrent_processing

\* RAGProcessingService.start_processing: what stops a new task from being
\* created for a session that has user input (the limit check is all there is)
StartRefused(s) == LimitReached

queued_call == Call(PROCESSING, "Queued for processing", 5)

\* ----------------------------------------------------------------------
\* POST /api/sessions/{id}/input : submit_user_input
\*   set_user_input, then start_processing (queue or create the task)
\* ----------------------------------------------------------------------
submit_user_input(s, u) ==
    /\ s \in Sessions
    /\ UNCHANGED aside_vars
    /\ budget.submit > 0
    /\ budget' = [budget EXCEPT !.submit = @ - 1]
    /\ IF StartRefused(s)
       THEN /\ sess' = [sess EXCEPT ![s] =
                    update_status([@ EXCEPT !.user_input = u], queued_call)]
            /\ updates' = Trail(s, <<set_user_input_call, queued_call>>)
            /\ UNCHANGED <<tasks, current_processing>>
       ELSE /\ sess' = [sess EXCEPT ![s] =
                    update_status([@ EXCEPT !.user_input = u], set_user_input_call)]
            /\ updates' = Trail(s, <<set_user_input_call>>)
            /\ tasks' = Append(tasks,
                    [sid |-> s, pc |-> "created", cancel |-> FALSE,
                     strategy |-> NoneStr, input |-> None])
            /\ current_processing' =
                    Drop(current_processing, s) @@ (s :> (Len(tasks) + 1))
    /\ response' = [op |-> "submit_user_input", sid |-> s, code |-> 200]
    /\ raised' = NoException
    /\ UNCHANGED <<refines, cancels>>

\* ----------------------------------------------------------------------
\* RAGProcessingService._handle_processing_error
\* ----------------------------------------------------------------------
\* (variant: update_status called with its default progress)
handle_processing_error_resetting(r, message) ==
    [update_status(r, Call(ERROR, "Error: " \o message, 0))
        EXCEPT !.error_count = @ + 1, !.last_error = message]

handle_processing_error(r, message) ==
    [update_status(r, Call(ERROR, "Error: " \o message, r.progress_percentage))
        EXCEPT !.error_count = @ + 1, !.last_error = message]

error_call(progress) == Call(ERROR, "Error", progress)

\* _process_session: the finally block
finally_block(s) ==
    IF s \in DOMAIN current_processing
    THEN Drop(current_processing, s)
    ELSE current_processing

\* ----------------------------------------------------------------------
\* _process_session, first run of the task: up to asyncio.sleep(1) in
\* _perform_task_analysis
\* ----------------------------------------------------------------------
start_analysis_call == Call(PROCESSING, "Starting task analysis", 10)

process_session_start(t) ==
    /\ t \in DOMAIN tasks
    /\ UNCHANGED aside_vars
    /\ tasks[t].pc = "created"
    /\ ~tasks[t].cancel
    /\ LET s == tasks[t].sid
       IN /\ sess' = [sess EXCEPT ![s] = update_status(@, start_analysis_call)]
          /\ updates' = Trail(s, <<start_analysis_call>>)
    /\ tasks' = [tasks EXCEPT ![t].pc = "analysis"]
    /\ raised' = NoException
    /\ UNCHANGED <<current_processing, refines, cancels, budget>>
    /\ response' = NoResponse

\* ----------------------------------------------------------------------
\* SessionManager.set_final_input and _create_final_input
\* ----------------------------------------------------------------------
creating_final_call == Call(PROCESSING, "Creating final input", 90)

\* (variant: completion reported at the progress of the step before)
set_final_input_call_at_90 == Call(COMPLETED, "Processing completed", 90)

set_final_input_call == Call(COMPLETED, "Processing completed", 100)

\* _create_final_input: the content the final input is built from
final_content(r) ==
    IF r.cp_atp_result # None
    THEN [cp_content |-> r.cp_atp_result.cp_content,
          atp_content |-> r.cp_atp_result.atp_content]
    ELSE [cp_content |-> r.user_input.cp, atp_content |-> r.user_input.atp]

\* FinalInput(...): validation_history is the session's own list object, so
\* it is read through the session; validation_iterations is the copy in
\* processing_metadata
create_final_input(r) ==
    update_status(
        [r EXCEPT !.final_input =
            [user_input |-> r.user_input,
             cp_content |-> final_content(r).cp_content,
             atp_content |-> final_content(r).atp_content,
             validation_iterations |-> Len(r.validation_history),
             confidence_score |->
                IF r.cp_atp_result # None
                THEN r.cp_atp_result.confidence_score ELSE 100]],
        set_final_input_call)

\* ----------------------------------------------------------------------
\* _process_session after the sleep: _analyze_task, set_task_analysis, then
\* either _process_with_existing_cp_atp (to the end of the task) or
\* _process_with_cp_atp_generation up to the generate_cp_atp call
\* ----------------------------------------------------------------------
set_task_analysis_call == Call(PROCESSING, "Task analysis completed", 20)

existing_call == Call(PROCESSING, "Processing with existing CP/ATP", 60)

generating_call == Call(CP_ATP_GENERATION, "Generating CP/ATP", 30)

process_session_analysis(t) ==
    /\ t \in DOMAIN tasks
    /\ UNCHANGED aside_vars
    /\ tasks[t].pc = "analysis"
    /\ ~tasks[t].cancel
    /\ LET s == tasks[t].sid
           u == sess[s].user_input
           analysed == [sess[s] EXCEPT !.task_analysis = analyze_task(u)]
       IN IF has_cp_atp(u)
          THEN /\ sess' = [sess EXCEPT ![s] = create_final_input(analysed)]
               /\ updates' = Trail(s, <<set_task_analysis_call, existing_call,
                                        creating_final_call, set_final_input_call>>)
               /\ tasks' = [tasks EXCEPT ![t] = Finished(@)]
               /\ current_processing' = finally_block(s)
          ELSE /\ sess' = [sess EXCEPT ![s] = update_status(analysed, generating_call)]
               /\ updates' = Trail(s, <<set_task_analysis_call, generating_call>>)
               /\ tasks' = [tasks EXCEPT
                              ![t].pc = "generating",
                              ![t].strategy = analyze_task(u).required_rag_strategy,
                              ![t].input = u]
               /\ UNCHANGED current_processing
    /\ raised' = NoException
    /\ UNCHANGED <<refines, cancels, budget>>
    /\ response' = NoResponse

\* ----------------------------------------------------------------------
\* CPATPOrchestrator.generate_cp_atp: the result for a strategy and input
\* ----------------------------------------------------------------------
generate_cp_atp(u, strategy) ==
    [cp_content |-> "generated CP",
     atp_content |-> "generated ATP",
     generation_strategy |-> strategy,
     confidence_score |-> calculate_confidence_score(strategy, u)]

set_cp_atp_result_call == Call(CP_ATP_GENERATION, "CP/ATP generated", 60)

waiting_call == Call(USER_VALIDATION, "Waiting for user validation", 65)

\* ----------------------------------------------------------------------
\* _process_session resumed after generate_cp_atp returned:
\* _send_cp_atp_for_validation, USER_VALIDATION, finally
\* ----------------------------------------------------------------------
process_session_generated(t) ==
    /\ t \in DOMAIN tasks
    /\ UNCHANGED aside_vars
    /\ tasks[t].pc = "generating"
    /\ ~tasks[t].cancel
    /\ LET s == tasks[t].sid
           result == generate_cp_atp(tasks[t].input, tasks[t].strategy)
       IN /\ sess' = [sess EXCEPT ![s] =
                 update_status([@ EXCEPT !.cp_atp_result = result], waiting_call)]
          /\ updates' = Trail(s, <<set_cp_atp_result_call, waiting_call>>)
          /\ current_processing' = finally_block(s)
    /\ tasks' = [tasks EXCEPT ![t] = Finished(@)]
    /\ raised' = NoException
    /\ UNCHANGED <<refines, cancels, budget>>
    /\ response' = NoResponse

\* ----------------------------------------------------------------------
\* _process_session resumed by an exception out of generate_cp_atp:
\* except Exception -> _handle_processing_error(str(e)), finally
\* ----------------------------------------------------------------------
process_session_failed(t, text) ==
    /\ t \in DOMAIN tasks
    /\ UNCHANGED aside_vars
    /\ tasks[t].pc = "generating"
    /\ ~tasks[t].cancel
    /\ LET s == tasks[t].sid
       IN /\ sess[s].error_count < MaxErrors
          /\ sess' = [sess EXCEPT ![s] = handle_processing_error(@, text)]
          /\ updates' = Trail(s, <<error_call(sess[s].progress_percentage)>>)
          /\ current_processing' = finally_block(s)
          /\ raised' = [sid |-> s, where |-> "processing", text |-> text]
    /\ tasks' = [tasks EXCEPT ![t] = Finished(@)]
    /\ UNCHANGED <<refines, cancels, budget>>
    /\ response' = NoResponse

\* ----------------------------------------------------------------------
\* _process_session receiving CancelledError: a task that never ran is
\* dropped without running its body (so without its finally block); a task
\* suspended inside the try block runs the finally block only, because
\* CancelledError is not an Exception
\* ----------------------------------------------------------------------
process_session_cancelled(t) ==
    /\ t \in DOMAIN tasks
    /\ UNCHANGED aside_vars
    /\ Live(t)
    /\ tasks[t].cancel
    /\ current_processing' =
          IF tasks[t].pc = "created" THEN current_processing
          ELSE finally_block(tasks[t].sid)
    /\ tasks' = [tasks EXCEPT ![t] = Finished(@)]
    /\ updates' = <<>>
    /\ raised' = NoException
    /\ UNCHANGED <<sess, refines, cancels, budget>>
    /\ response' = NoResponse

\* ----------------------------------------------------------------------
\* submit_validation: the status check of the endpoint
\* ----------------------------------------------------------------------
\* (variant: an endpoint that hands every submission to handle_user_validation)
ValidationAccepted_always(s) == TRUE

ValidationAccepted(s) == sess[s].status = USER_VALIDATION

approved_call == Call(USER_VALIDATION, "Validation approved", 80)

refinement_needed_call == Call(REFINEMENT, "Refinement needed", 50)

processing_refinement_call == Call(REFINEMENT, "Processing refinement", 45)

\* (variant: the new entry replaces the history)
add_validation_replacing(r, v) ==
    [r EXCEPT !.validation_history = <<v>>]

\* SessionState.add_validation
add_validation(r, v) ==
    [r EXCEPT !.validation_history = Append(@, v)]

\* ----------------------------------------------------------------------
\* POST /api/sessions/{id}/validate : submit_validation
\*   400 unless USER_VALIDATION; handle_user_validation: approval runs to
\*   COMPLETED, rejection runs into refine_cp_atp and suspends there
\* ----------------------------------------------------------------------
submit_validation(s, v) ==
    /\ s \in Sessions
    /\ UNCHANGED aside_vars
    /\ raised' = NoException
    /\ UNCHANGED <<current_processing, tasks, cancels, budget>>
    /\ IF ~ValidationAccepted(s)
       THEN /\ response' = [op |-> "submit_validation", sid |-> s, code |-> 400]
            /\ updates' = <<>>
            /\ UNCHANGED <<sess, refines>>
       ELSE /\ Len(sess[s].validation_history) < budget.history
            /\ IF v.is_approved
               THEN /\ sess' = [sess EXCEPT ![s] =
                           create_final_input(add_validation(@, v))]
                    /\ updates' = Trail(s, <<approved_call, creating_final_call,
                                             set_final_input_call>>)
                    /\ response' = [op |-> "submit_validation", sid |-> s, code |-> 200]
                    /\ UNCHANGED refines
               ELSE IF sess[s].cp_atp_result = None
               THEN /\ sess' = [sess EXCEPT ![s] =
                           handle_processing_error(
                               update_status(add_validation(@, v),
                                             processing_refinement_call),
                               "Refinement error: No original CP/ATP result found")]
                    /\ updates' = Trail(s, <<refinement_needed_call,
                                             processing_refinement_call,
                                             error_call(45)>>)
                    /\ response' = [op |-> "submit_validation", sid |-> s, code |-> 200]
                    /\ UNCHANGED refines
               ELSE /\ sess' = [sess EXCEPT ![s] =
                           update_status(add_validation(@, v),
                                         processing_refinement_call)]
                    /\ updates' = Trail(s, <<refinement_needed_call,
                                             processing_refinement_call>>)
                    /\ refines' = Append(refines,
                           [sid |-> s, feedback |-> v.feedback,
                            original |-> sess[s].cp_atp_result])
                    /\ response' = NoResponse

\* ----------------------------------------------------------------------
\* CPATPOrchestrator._analyze_feedback_for_strategy
\* ----------------------------------------------------------------------
detail_keywords == {"detail", "lengkap", "spesifik", "mendalam", "komprehensif"}

simple_keywords == {"sederhana", "singkat", "ringkas", "simple", "basic"}

\* what list.index and RAGStrategyEnum(...) raise for a value they do not hold
ValueError == "ValueError"

strategy_cycle_next_stay(current) == current

strategy_cycle_next_adaptive(current) ==
    CASE current = SIMPLE -> ADVANCED
      [] current = ADVANCED -> GRAPH
      [] current = GRAPH -> ADAPTIVE
      [] OTHER -> ValueError

\* strategy_cycle[(strategy_cycle.index(current) + 1) % 3];
\* index raises ValueError for a strategy outside the cycle
strategy_cycle_next(current) ==
    CASE current = SIMPLE -> ADVANCED
      [] current = ADVANCED -> GRAPH
      [] current = GRAPH -> SIMPLE
      [] OTHER -> ValueError

analyze_feedback_for_strategy(feedback, current) ==
    IF \E k \in detail_keywords : Contains(feedback, k)
    THEN CASE current = SIMPLE -> ADVANCED
           [] current = ADVANCED -> GRAPH
           [] OTHER -> strategy_cycle_next(current)
    ELSE IF \E k \in simple_keywords : Contains(feedback, k)
    THEN CASE current = GRAPH -> ADVANCED
           [] current = ADVANCED -> SIMPLE
           [] OTHER -> strategy_cycle_next(current)
    ELSE strategy_cycle_next(current)

\* (variant: the increment is added without the cap)
refine_cp_atp_uncapped(original, feedback) ==
    [cp_content |-> "refined CP",
     atp_content |-> "refined ATP",
     generation_strategy |->
         analyze_feedback_for_strategy(feedback, original.generation_strategy),
     confidence_score |-> original.confidence_score + 10]

\* CPATPOrchestrator.refine_cp_atp: the refined result
refine_cp_atp(original, feedback) ==
    [cp_content |-> "refined CP",
     atp_content |-> "refined ATP",
     generation_strategy |->
         analyze_feedback_for_strategy(feedback, original.generation_strategy),
     confidence_score |-> Min(original.confidence_score + 10, 100)]

\* ----------------------------------------------------------------------
\* handle_user_validation resumed after refine_cp_atp returned:
\* _send_cp_atp_for_validation, then the endpoint answers
\* ----------------------------------------------------------------------
refinement_done(i) ==
    /\ i \in DOMAIN refines
    /\ UNCHANGED aside_vars
    /\ LET s == refines[i].sid
           refined == refine_cp_atp(refines[i].original, refines[i].feedback)
       IN /\ sess' = [sess EXCEPT ![s] =
                 update_status([@ EXCEPT !.cp_atp_result = refined],
                               set_cp_atp_result_call)]
          /\ updates' = Trail(s, <<set_cp_atp_result_call>>)
          /\ response' = [op |-> "submit_validation", sid |-> s, code |-> 200]
    /\ refines' = RemoveAt(refines, i)
    /\ raised' = NoException
    /\ UNCHANGED <<current_processing, tasks, cancels, budget>>

\* ----------------------------------------------------------------------
\* handle_user_validation resumed by an exception out of refine_cp_atp:
\* _handle_processing_error("Refinement error: ...")
\* ----------------------------------------------------------------------
refinement_failed(i, text) ==
    /\ i \in DOMAIN refines
    /\ UNCHANGED aside_vars
    /\ LET s == refines[i].sid
       IN /\ sess[s].error_count < MaxErrors
          /\ sess' = [sess EXCEPT ![s] =
                 handle_processing_error(@, "Refinement error: " \o text)]
          /\ updates' = Trail(s, <<error_call(sess[s].progress_percentage)>>)
          /\ response' = [op |-> "submit_validation", sid |-> s, code |-> 200]
          /\ raised' = [sid |-> s, where |-> "refinement", text |-> text]
    /\ refines' = RemoveAt(refines, i)
    /\ UNCHANGED <<current_processing, tasks, cancels, budget>>

\* ----------------------------------------------------------------------
\* DELETE /api/sessions/{id} : delete_session
\*   cancel_processing, then session_mgr.remove_session, a method that
\*   SessionManager does not have: AttributeError, answered with 500
\* ----------------------------------------------------------------------
cancelled_call(progress) == Call(ERROR, "Processing cancelled", progress)

delete_session(s) ==
    /\ s \in Sessions
    /\ UNCHANGED aside_vars
    /\ budget.cancel > 0
    /\ budget' = [budget EXCEPT !.cancel = @ - 1]
    /\ raised' = NoException
    /\ UNCHANGED <<current_processing, refines>>
    /\ IF s \notin DOMAIN current_processing
       THEN /\ response' = [op |-> "delete_session", sid |-> s, code |-> 500]
            /\ updates' = <<>>
            /\ UNCHANGED <<sess, tasks, cancels>>
       ELSE LET t == current_processing[s]
            IN IF Live(t)
               THEN /\ tasks' = [tasks EXCEPT ![t].cancel = TRUE]
                    /\ cancels' = Append(cancels, [sid |-> s, task |-> t])
                    /\ updates' = <<>>
                    /\ response' = NoResponse
                    /\ UNCHANGED sess
               ELSE /\ sess' = [sess EXCEPT ![s] = update_status(@,
                              cancelled_call(sess[s].progress_percentage))]
                    /\ updates' = Trail(s,
                              <<cancelled_call(sess[s].progress_percentage)>>)
                    /\ response' = [op |-> "delete_session", sid |-> s, code |-> 500]
                    /\ UNCHANGED <<tasks, cancels>>

\* ----------------------------------------------------------------------
\* cancel_processing resumed once the awaited task has finished
\* ----------------------------------------------------------------------
cancel_processing_resumed(i) ==
    /\ i \in DOMAIN cancels
    /\ UNCHANGED aside_vars
    /\ ~Live(cancels[i].task)
    /\ LET s == cancels[i].sid
       IN /\ sess' = [sess EXCEPT ![s] = update_status(@,
                 cancelled_call(sess[s].progress_percentage))]
          /\ updates' = Trail(s, <<cancelled_call(sess[s].progress_percentage)>>)
          /\ response' = [op |-> "delete_session", sid |-> s, code |-> 500]
    /\ cancels' = RemoveAt(cancels, i)
    /\ raised' = NoException
    /\ UNCHANGED <<current_processing, tasks, refines, budget>>

\* ----------------------------------------------------------------------
\* The backend
\* ----------------------------------------------------------------------
Next ==
    \/ create_session
    \/ \E s \in Sessions, u \in Requests : submit_user_input(s, u)
    \/ \E t \in DOMAIN tasks : process_session_start(t)
    \/ \E t \in DOMAIN tasks : process_session_analysis(t)
    \/ \E t \in DOMAIN tasks : process_session_generated(t)
    \/ \E t \in DOMAIN tasks, text \in ExceptionTexts : process_session_failed(t, text)
    \/ \E t \in DOMAIN tasks : process_session_cancelled(t)
    \/ \E s \in Sessions, v \in Validations : submit_validation(s, v)
    \/ \E i \in DOMAIN refines : refinement_done(i)
    \/ \E i \in DOMAIN refines, text \in ExceptionTexts : refinement_failed(i, text)
    \/ \E s \in Sessions : delete_session(s)
    \/ \E i \in DOMAIN cancels : cancel_processing_resumed(i)

Init ==
    /\ ServiceInit
    /\ given = None
    /\ returned = None
    /\ app = None

Spec == Init /\ [][Next]_vars

\* ----------------------------------------------------------------------
\* The backend with a larger client budget; the steps are those that
\* create a task, run it and finish it normally, so every behaviour of
\* SpecCapacity is a behaviour of the backend
\* ----------------------------------------------------------------------
CapacitySessions == 3
CapacitySubmits == 4

CapacityInit ==
    /\ sess = <<>>
    /\ current_processing = <<>>
    /\ tasks = <<>>
    /\ refines = <<>>
    /\ cancels = <<>>
    /\ response = NoResponse
    /\ updates = <<>>
    /\ raised = NoException
    /\ budget = [create |-> CapacitySessions, submit |-> CapacitySubmits, cancel |-> 0,
                 history |-> MaxHistory]
    /\ given = None
    /\ returned = None
    /\ app = None

CapacityNext ==
    \/ create_session
    \/ \E s \in Sessions, u \in Requests : submit_user_input(s, u)
    \/ \E t \in DOMAIN tasks : process_session_start(t)
    \/ \E t \in DOMAIN tasks : process_session_analysis(t)
    \/ \E t \in DOMAIN tasks : process_session_generated(t)

SpecCapacity == CapacityInit /\ [][CapacityNext]_vars

\* ----------------------------------------------------------------------
\* EnhancedMainOrchestrator.__init__: self.thresholds
\* ----------------------------------------------------------------------
thresholds ==
    [simple_rag |-> 85, advanced_rag |-> 60, graph_rag |-> 50,
     overall_confidence |-> 80]

\* (variant: the Advanced test placed ahead of the Graph test)
determine_required_strategy_advanced_first(template_score, advanced_score, graph_score) ==
    IF template_score >= thresholds.simple_rag THEN SIMPLE
    ELSE IF advanced_score >= thresholds.advanced_rag THEN ADVANCED
    ELSE IF graph_score >= thresholds.graph_rag THEN GRAPH
    ELSE ADAPTIVE

\* EnhancedMainOrchestrator._determine_required_strategy
determine_required_strategy(template_score, advanced_score, graph_score) ==
    IF template_score >= thresholds.simple_rag THEN SIMPLE
    ELSE IF graph_score >= thresholds.graph_rag THEN GRAPH
    ELSE IF advanced_score >= thresholds.advanced_rag THEN ADVANCED
    ELSE ADAPTIVE

\* Scores in hundredths, on and around each threshold
Scores == {0, 40, 49, 50, 55, 59, 60, 84, 85, 90, 100}

SelectInit ==
    /\ ServiceInit
    /\ given \in [template_score : Scores, advanced_score : Scores,
                  graph_score : Scores]
    /\ returned = None
    /\ app = None

\* one call of _determine_required_strategy on the drawn triple
select_strategy ==
    /\ returned = None
    /\ returned' = [strategy |->
           determine_required_strategy(given.template_score,
                                       given.advanced_score, given.graph_score)]
    /\ UNCHANGED <<service_vars, given, app>>

SelectNext == select_strategy

SpecSelect == SelectInit /\ [][SelectNext]_vars

\* ----------------------------------------------------------------------
\* C1: validation feedback (approve or reject) submitted for a session
\* whose status is not USER_VALIDATION is rejected (HTTP 400) and the
\* session - status, step, progress, validation history, stored result -
\* is the same after the call as before it.
\* ----------------------------------------------------------------------
C1_RejectedOutsideUserValidation ==
    [][\A s \in Sessions, v \in Validations :
          (submit_validation(s, v) /\ sess[s].status # USER_VALIDATION)
              => /\ response'.op = "submit_validation"
                 /\ response'.code = 400
                 /\ sess' = sess
                 /\ refines' = refines]_vars

\* a submission was answered 400 for a session that has a generated result
\* but is no longer waiting for validation
C1_Witness ==
    /\ response.op = "submit_validation"
    /\ response.code = 400
    /\ sess[response.sid].status \in {CP_ATP_GENERATION, COMPLETED, ERROR}
    /\ sess[response.sid].cp_atp_result # None

Started(t) == tasks[t].pc \in {"analysis", "generating"}

ProcessingSessions ==
    {s \in Sessions : \E t \in DOMAIN tasks : tasks[t].sid = s /\ Started(t)}

CycleAtRest(s) ==
    /\ LiveTasksOf(s) = {}
    /\ \A i \in DOMAIN refines : refines[i].sid # s
    /\ sess[s].status \notin {USER_VALIDATION, INPUT_COLLECTION}

C5_StrategyPriority ==
    returned # None =>
        LET t == given.template_score
            a == given.advanced_score
            g == given.graph_score
        IN /\ t >= 85 => returned.strategy = SIMPLE
           /\ (t < 85 /\ g >= 50) => returned.strategy = GRAPH
           /\ (t < 85 /\ g < 50 /\ a >= 60) => returned.strategy = ADVANCED
           /\ (t < 85 /\ g < 50 /\ a < 60) => returned.strategy = ADAPTIVE

\* the example of the rule: (simple 0.5, graph 0.55, advanced 0.4) gave Graph
C5_Witness ==
    /\ returned # None
    /\ given = [template_score |-> 50, advanced_score |-> 40, graph_score |-> 55]
    /\ returned.strategy = GRAPH

CancellationReported ==
    /\ response.op = "delete_session"
    /\ updates # <<>>

LifecycleEdges ==
    { <<CREATED, INPUT_COLLECTION>>,
      <<INPUT_COLLECTION, PROCESSING>>,
      <<PROCESSING, CP_ATP_GENERATION>>,
      <<PROCESSING, USER_VALIDATION>>,
      <<PROCESSING, COMPLETED>>,
      <<CP_ATP_GENERATION, USER_VALIDATION>>,
      <<USER_VALIDATION, REFINEMENT>>,
      <<REFINEMENT, USER_VALIDATION>>,
      <<USER_VALIDATION, COMPLETED>>,
      <<REFINEMENT, COMPLETED>> }

LatestValidationIs(s, approved) ==
    /\ sess[s].validation_history # <<>>
    /\ sess[s].validation_history[Len(sess[s].validation_history)].is_approved
           = approved

FinalResultIsGenerated(s) ==
    /\ sess[s].cp_atp_result # None
    /\ sess[s].final_input.cp_content = sess[s].cp_atp_result.cp_content
    /\ sess[s].final_input.atp_content = sess[s].cp_atp_result.atp_content

max_iterations == 3

\* what UserInterface.collect_user_input may hand over
AppInputs ==
    [cp : {"", "CP supplied"}, atp : {"", "ATP supplied"},
     complexity : {20, 50, 80},
     long_sub_topik : {FALSE}, menit : {FALSE}, common_subject : {FALSE}]

AppFeedbacks == {"", "lebih detail", "lebih sederhana"}

\* UserInterface.get_user_validation: feedback is asked only on a rejection
AppValidations ==
    {[is_approved |-> TRUE, feedback |-> NoneStr]} \cup
    {[is_approved |-> FALSE, feedback |-> f] : f \in AppFeedbacks}

\* MainOrchestrator._handle_cp_atp_generation: ValidationResult(is_approved=True)
simulated_validation == [is_approved |-> TRUE, feedback |-> NoneStr]

\* MainOrchestrator._refine_strategy
refine_strategy(current_strategy, validation_result) ==
    LET feedback == validation_result.feedback
        given_feedback == feedback # NoneStr /\ feedback # ""
        detail == \E w \in {"detail", "lengkap", "spesifik"} : Contains(feedback, w)
        simpler == \E w \in {"sederhana", "singkat", "simple"} : Contains(feedback, w)
    IN IF given_feedback /\ detail /\ current_strategy = SIMPLE THEN ADVANCED
       ELSE IF given_feedback /\ detail /\ current_strategy = ADVANCED THEN GRAPH
       ELSE IF given_feedback /\ ~detail /\ simpler /\ current_strategy = GRAPH
            THEN ADVANCED
       ELSE IF given_feedback /\ ~detail /\ simpler /\ current_strategy = ADVANCED
            THEN SIMPLE
       ELSE strategy_cycle_next(current_strategy)

\* MainOrchestrator._handle_cp_atp_generation: the while loop, entered with
\* current_iteration rounds done, cp_atp_result the result of the last round
RECURSIVE generation_loop(_, _, _, _, _)
generation_loop(u, strategy, current_iteration, cp_atp_result, validation_history) ==
    IF current_iteration < max_iterations
    THEN LET generated == generate_cp_atp(u, strategy)
             validation_result == simulated_validation
             history == Append(validation_history, validation_result)
         IN IF validation_result.is_approved
            THEN [cp_content |-> generated.cp_content,
                  atp_content |-> generated.atp_content,
                  validation_history |-> history]
            ELSE generation_loop(u, refine_strategy(strategy, validation_result),
                                 current_iteration + 1, generated, history)
    ELSE [cp_content |-> cp_atp_result.cp_content,
          atp_content |-> cp_atp_result.atp_content,
          validation_history |-> validation_history]

handle_cp_atp_generation(u, strategy) == generation_loop(u, strategy, 0, None, <<>>)

\* MainOrchestrator.process_request, when no collaborator fails
process_request(u) ==
    LET task_analysis == analyze_task(u)
        selected_strategy == task_analysis.required_rag_strategy
        made == IF has_cp_atp(u)
                THEN [cp_content |-> u.cp, atp_content |-> u.atp,
                      validation_history |-> <<>>]
                ELSE handle_cp_atp_generation(u, selected_strategy)
    IN [user_input |-> u,
        cp_content |-> made.cp_content,
        atp_content |-> made.atp_content,
        strategy_used |-> selected_strategy,
        validation_iterations |-> Len(made.validation_history),
        validation_history |-> made.validation_history]

\* RAGMultiStrategyApp._generate_cp_atp: the CPATPResult built from the
\* orchestrator's final input
app_generate_cp_atp(u) ==
    LET final_input == process_request(u)
    IN [cp_content |-> final_input.cp_content,
        atp_content |-> final_input.atp_content,
        generation_strategy |-> SIMPLE,
        confidence_score |-> 85]

\* RAGMultiStrategyApp._refine_based_on_feedback
refine_based_on_feedback(user_input, validation_result) == user_input

\* RAGMultiStrategyApp._create_final_input_with_cp_atp
create_final_input_with_cp_atp(user_input, cp_atp_result, validation_history) ==
    [user_input |-> user_input,
     cp_content |-> cp_atp_result.cp_content,
     atp_content |-> cp_atp_result.atp_content,
     strategy_used |-> cp_atp_result.generation_strategy,
     validation_iterations |-> Len(validation_history),
     validation_history |-> validation_history]

\* `if current_iteration < max_iterations` after a rejection: refine and go
\* round again, or else use the last result
refine_again_always(current_iteration) == TRUE

refine_again(current_iteration) == current_iteration < max_iterations

AppStart ==
    [pc |-> "collect_user_input", user_input |-> None, current_iteration |-> 0,
     cp_atp_result |-> None, validation_result |-> None, final_input |-> None,
     error |-> NoneStr]

AppInit ==
    /\ ServiceInit
    /\ given = None
    /\ returned = None
    /\ app = AppStart

\* run: _collect_user_input, then _process_with_orchestrator up to its
\* first call of the orchestrator (directly, or in round 1 of the loop)
collect_user_input(u) ==
    /\ app.pc = "collect_user_input"
    /\ app' = IF has_cp_atp(u)
              THEN [app EXCEPT !.pc = "process_request", !.user_input = u]
              ELSE [app EXCEPT !.pc = "generate_cp_atp", !.user_input = u,
                               !.current_iteration = 1]
    /\ UNCHANGED <<service_vars, given, returned>>

\* process_request returned for an input that carries CP and ATP
process_request_returned ==
    /\ app.pc = "process_request"
    /\ app' = [app EXCEPT !.pc = "returned",
                          !.final_input = process_request(app.user_input)]
    /\ UNCHANGED <<service_vars, given, returned>>

\* _generate_cp_atp returned in a round of the loop: the result is shown
\* and the user is asked
generate_cp_atp_returned ==
    /\ app.pc = "generate_cp_atp"
    /\ app' = [app EXCEPT !.pc = "get_user_validation",
                          !.cp_atp_result = app_generate_cp_atp(app.user_input)]
    /\ UNCHANGED <<service_vars, given, returned>>

\* an exception out of the orchestrator: logged and re-raised up to main()
process_request_raised(text) ==
    /\ app.pc \in {"process_request", "generate_cp_atp"}
    /\ app' = [app EXCEPT !.pc = "raised", !.error = text]
    /\ UNCHANGED <<service_vars, given, returned>>

\* the user's verdict and the rest of the round
get_user_validation(v) ==
    /\ app.pc = "get_user_validation"
    /\ app' =
         IF v.is_approved
         THEN [app EXCEPT !.pc = "returned", !.validation_result = v,
                   !.final_input = create_final_input_with_cp_atp(
                                       app.user_input, app.cp_atp_result, <<v>>)]
         ELSE IF refine_again(app.current_iteration)
         THEN IF app.current_iteration < max_iterations
              THEN [app EXCEPT !.pc = "generate_cp_atp", !.validation_result = v,
                        !.user_input = refine_based_on_feedback(app.user_input, v),
                        !.current_iteration = @ + 1]
              ELSE [app EXCEPT !.pc = "raised", !.validation_result = v,
                        !.user_input = refine_based_on_feedback(app.user_input, v),
                        !.error = "Failed to generate acceptable CP/ATP after maximum iterations"]
         ELSE [app EXCEPT !.pc = "returned", !.validation_result = v,
                   !.final_input = create_final_input_with_cp_atp(
                                       app.user_input, app.cp_atp_result, <<v>>)]
    /\ UNCHANGED <<service_vars, given, returned>>

AppNext ==
    \/ \E u \in AppInputs : collect_user_input(u)
    \/ process_request_returned
    \/ generate_cp_atp_returned
    \/ \E text \in ExceptionTexts : process_request_raised(text)
    \/ \E v \in AppValidations : get_user_validation(v)

SpecApp == AppInit /\ [][AppNext]_vars

MaxRefinements == 6

RefineFeedbacks ==
    {"", "lebih detail", "kurang lengkap", "lebih sederhana", "terlalu basic",
     "ganti"}

\* RAGProcessingService._generate_cp_atp: RAGStrategyEnum(strategy_name) and
\* its conversion to RAGStrategy
service_strategy(strategy_name) ==
    IF strategy_name \in {SIMPLE, ADVANCED, GRAPH} THEN strategy_name
    ELSE ValueError

RefineInit ==
    /\ ServiceInit
    /\ app = None
    /\ \E u \in AppInputs :
          LET strategy ==
                  service_strategy(analyze_task(u).required_rag_strategy)
          IN /\ given = [user_input |-> u, feedback |-> NoneStr, refinements |-> 0]
             /\ returned = IF strategy = ValueError
                           THEN [cp_content |-> "", atp_content |-> "",
                                 generation_strategy |-> ValueError,
                                 confidence_score |-> 0]
                           ELSE generate_cp_atp(u, strategy)

\* one more rejected validation: _refine_cp_atp on the current result
refine(feedback) ==
    /\ given.refinements < MaxRefinements
    /\ returned.generation_strategy # ValueError
    /\ returned' = refine_cp_atp(returned, feedback)
    /\ given' = [given EXCEPT !.feedback = feedback, !.refinements = @ + 1]
    /\ UNCHANGED <<service_vars, app>>

RefineNext == \E feedback \in RefineFeedbacks : refine(feedback)

SpecRefine == RefineInit /\ [][RefineNext]_vars

\* ----------------------------------------------------------------------
\* C15: after any number of refinements with any feedback texts, from any
\* strategy the pipeline selects, the strategy of the current result is
\* Simple, Advanced or Graph: never Adaptive, and the refinement never
\* fails (ValueError) on its current strategy.
\* ----------------------------------------------------------------------
C15_StrategyStaysInCycle ==
    /\ returned.generation_strategy \in {SIMPLE, ADVANCED, GRAPH}
    /\ \A feedback \in RefineFeedbacks :
          analyze_feedback_for_strategy(feedback, returned.generation_strategy)
              # ValueError

C15_Witness ==
    /\ given.refinements = 3
    /\ given.feedback = "lebih sederhana"
    /\ given.user_input.complexity = 80
    /\ returned.generation_strategy = SIMPLE

\* ----------------------------------------------------------------------
\* The scoring pipeline of EnhancedMainOrchestrator: _analyze_task,
\* _select_strategy, _monitor_quality.  Scores are in hundredths, rounded
\* down where a quotient is not a whole number of hundredths.
\* ----------------------------------------------------------------------
Max(a, b) == IF a >= b THEN a ELSE b

RECURSIVE SumOf(_)
SumOf(seq) == IF seq = <<>> THEN 0 ELSE seq[1] + SumOf(Tail(seq))

RECURSIVE SumOfSquares(_)
SumOfSquares(seq) ==
    IF seq = <<>> THEN 0 ELSE seq[1] * seq[1] + SumOfSquares(Tail(seq))

\* math.sqrt of a variance given in ten-thousandths
sqrt(variance) ==
    CHOOSE r \in 0..200 : r * r <= variance /\ (r + 1) * (r + 1) > variance

weights ==
    [template_matching |-> [lambda_1 |-> 80, lambda_2 |-> 20],
     advanced_rag |-> [alpha_1 |-> 30, alpha_2 |-> 25, alpha_3 |-> 25, alpha_4 |-> 20],
     graph_rag |-> [beta_1 |-> 40, beta_2 |-> 40, beta_3 |-> 20]]

clamp_none(score) == score

\* min(max(score, 0.0), 1.0)
clamp(score) == Min(Max(score, 0), 100)

\* similarity_score = 1.0 - distance of the snippets a search returns
Similarities == {-100, 50, 100}

\* outcome of vector_db_service.search_documents: it raised, or the list of
\* the similarity scores of the snippets, best first
SearchOutcomes ==
    {[failed |-> TRUE, similarities |-> <<>>]} \cup
    {[failed |-> FALSE, similarities |-> l] :
        l \in {<<>>} \cup {<<a>> : a \in Similarities}
              \cup {p \in Similarities \X Similarities : p[2] <= p[1]}}

\* the words of "topik sub_topik": how many, how many distinct, how many
\* relational ones
QueryShapes ==
    { [query_length |-> 0, unique_words |-> 0, relational |-> 0],
      [query_length |-> 2, unique_words |-> 2, relational |-> 1],
      [query_length |-> 45, unique_words |-> 8, relational |-> 45] }

_calculate_template_matching_score(search) ==
    IF search.failed THEN 0
    ELSE IF search.similarities = <<>> THEN 0
    ELSE LET similarities == search.similarities
             n == Len(similarities)
             delta_hat == IF n >= 2 THEN similarities[1] - similarities[2] ELSE 0
             \* lambda_1 * mu_k + lambda_2 * delta_hat, times 100 n
             s_tmpl == (weights.template_matching.lambda_1 * SumOf(similarities)
                        + weights.template_matching.lambda_2 * delta_hat * n)
                       \div (100 * n)
         IN clamp(s_tmpl)

\* (variant: without the early returns for fewer than two results, no
\* spread being taken for the widest one)
_calculate_document_dispersion_unguarded(similarities) ==
    IF Len(similarities) <= 1 THEN 100
    ELSE LET n == Len(similarities)
             total == SumOf(similarities)
             variance == (n * SumOfSquares(similarities) - total * total) \div (n * n)
         IN Min(sqrt(variance), 100)

_calculate_document_dispersion(similarities) ==
    IF Len(similarities) <= 1 THEN 0
    ELSE LET n == Len(similarities)
             total == SumOf(similarities)
             variance == (n * SumOfSquares(similarities) - total * total) \div (n * n)
         IN Min(sqrt(variance), 100)

_calculate_query_specificity(q) ==
    Min((q.unique_words * 100) \div Max(q.query_length, 1), 100)

_calculate_advanced_rag_score(q, entities, search) ==
    IF search.failed THEN 50
    ELSE LET l_prime == Min((q.query_length * 100) \div 30, 100)
             e_prime == Min((entities * 100) \div 5, 100)
             d_score == _calculate_document_dispersion(search.similarities)
             s_prime == _calculate_query_specificity(q)
             s_adv == (weights.advanced_rag.alpha_1 * l_prime
                       + weights.advanced_rag.alpha_2 * e_prime
                       + weights.advanced_rag.alpha_3 * d_score
                       + weights.advanced_rag.alpha_4 * s_prime) \div 100
         IN clamp(s_adv)

_calculate_relation_frequency(q) ==
    IF q.query_length = 0 THEN 0
    ELSE Min((q.relational * 100) \div q.query_length, 100)

_calculate_subgraph_density(entities) ==
    IF entities <= 1 THEN 0 ELSE Min((entities * 100) \div 10, 100)

_calculate_graph_rag_score(q, entities, relational_keyword) ==
    LET rho_prime == _calculate_relation_frequency(q)
        delta_prime == _calculate_subgraph_density(entities)
        i_pattern == IF relational_keyword THEN 100 ELSE 0
        s_graph == (weights.graph_rag.beta_1 * rho_prime
                    + weights.graph_rag.beta_2 * delta_prime
                    + weights.graph_rag.beta_3 * i_pattern) \div 100
    IN clamp(s_graph)

\* _calculate_generation_confidence: the mean of four scores
_calculate_generation_confidence(complete_input) ==
    ((IF complete_input.cp_long THEN 80 ELSE 40)
     + (IF complete_input.atp_long THEN 80 ELSE 40)
     + (complete_input.cp_indicators * 100) \div 4
     + (complete_input.atp_indicators * 100) \div 4) \div 4

\* (variant: the maximum of the three suitability scores alone)
confidence_level_of_three(task_analysis) ==
    Max(Max(task_analysis.template_matching_score,
            task_analysis.advanced_rag_score),
        task_analysis.graph_rag_score)

\* _select_strategy: confidence_level = max(strategy_scores.values())
confidence_level(task_analysis) ==
    Max(Max(task_analysis.template_matching_score,
            task_analysis.advanced_rag_score),
        Max(task_analysis.graph_rag_score, 80))

overall_confidence_retrieval(retrieval_confidence, generation_confidence) ==
    retrieval_confidence

\* _monitor_quality: overall_confidence = min(C_r, C_g)
overall_confidence(retrieval_confidence, generation_confidence) ==
    Min(retrieval_confidence, generation_confidence)

NotYet == [task_analysis |-> None, confidence_level |-> None, monitoring |-> None]

QualityInit ==
    /\ ServiceInit
    /\ app = None
    /\ returned = NotYet
    /\ given \in [template_search : SearchOutcomes,
                  advanced_search : {s \in SearchOutcomes : Len(s.similarities) # 1},
                  query : QueryShapes,
                  entities : {1, 8},
                  relational_keyword : BOOLEAN,
                  complete_input : [cp_long : BOOLEAN, atp_long : BOOLEAN,
                                    cp_indicators : {0, 4},
                                    atp_indicators : {1, 4}]]

\* _analyze_task: the three scores and the strategy they require
analyze_task_scores ==
    /\ returned.task_analysis = None
    /\ LET t == _calculate_template_matching_score(given.template_search)
           a == _calculate_advanced_rag_score(given.query, given.entities,
                                              given.advanced_search)
           g == _calculate_graph_rag_score(given.query, given.entities,
                                           given.relational_keyword)
       IN returned' = [returned EXCEPT !.task_analysis =
              [template_matching_score |-> t,
               advanced_rag_score |-> a,
               graph_rag_score |-> g,
               required_rag_strategy |-> determine_required_strategy(t, a, g)]]
    /\ UNCHANGED <<service_vars, given, app>>

\* _select_strategy
select_strategy_scores ==
    /\ returned.task_analysis # None
    /\ returned.confidence_level = None
    /\ returned' = [returned EXCEPT !.confidence_level =
           [value |-> confidence_level(returned.task_analysis)]]
    /\ UNCHANGED <<service_vars, given, app>>

\* _monitor_quality on the complete input the orchestration produced
monitor_quality ==
    /\ returned.confidence_level # None
    /\ returned.monitoring = None
    /\ LET retrieval_confidence == returned.confidence_level.value
           generation_confidence ==
               _calculate_generation_confidence(given.complete_input)
       IN returned' = [returned EXCEPT !.monitoring =
              [retrieval_confidence |-> retrieval_confidence,
               generation_confidence |-> generation_confidence,
               overall_confidence |->
                   overall_confidence(retrieval_confidence, generation_confidence)]]
    /\ UNCHANGED <<service_vars, given, app>>

QualityNext ==
    \/ analyze_task_scores
    \/ select_strategy_scores
    \/ monitor_quality

SpecQuality == QualityInit /\ [][QualityNext]_vars

\* ----------------------------------------------------------------------
\* C16: the quality monitor's overall_confidence is exactly the smaller of
\* retrieval_confidence and generation_confidence: in every monitoring
\* result of the pipeline, and for every pair of confidence values.
\* ----------------------------------------------------------------------
C16_OverallIsMinimum ==
    /\ returned.monitoring # None =>
          LET m == returned.monitoring
          IN /\ m.retrieval_confidence = returned.confidence_level.value
             /\ m.overall_confidence <= m.retrieval_confidence
             /\ m.overall_confidence <= m.generation_confidence
             /\ m.overall_confidence \in
                    {m.retrieval_confidence, m.generation_confidence}
    /\ \A r \in 0..20, g \in 0..20 :
          overall_confidence(5 * r, 5 * g) = IF r <= g THEN 5 * r ELSE 5 * g

C16_Witness ==
    /\ returned.monitoring # None
    /\ returned.monitoring.retrieval_confidence = 80
    /\ returned.monitoring.generation_confidence = 90
    /\ returned.monitoring.overall_confidence = 80

\* ----------------------------------------------------------------------
\* C17: for every request and every list of retrieved snippets (similarity
\* values at the extremes, the search failing), template_matching_score,
\* advanced_rag_score, graph_rag_score and overall_confidence lie in
\* [0.0, 1.0].
\* ----------------------------------------------------------------------
C17_ScoresInUnitInterval ==
    /\ returned.task_analysis # None =>
          /\ returned.task_analysis.template_matching_score \in 0..100
          /\ returned.task_analysis.advanced_rag_score \in 0..100
          /\ returned.task_analysis.graph_rag_score \in 0..100
    /\ returned.monitoring # None =>
          returned.monitoring.overall_confidence \in 0..100

C17_Witness ==
    /\ returned.monitoring # None
    /\ given.template_search.similarities = <<-100>>
    /\ given.advanced_search.failed
    /\ returned.task_analysis.template_matching_score = 0
    /\ returned.task_analysis.advanced_rag_score = 50

\* ----------------------------------------------------------------------
\* Session expiry: SessionManager over a clock.  Time is in hours; given
\* holds the clock (datetime.now()) and, for every session ever created,
\* the time of its creation; returned holds the last answer of get_session.
\* ----------------------------------------------------------------------
session_expiry_hours == 24

MaxClock == 60
ClockStep == 12

is_expired_never(session, now, expiry_hours) == FALSE

\* SessionState.is_expired
is_expired(session, now, expiry_hours) ==
    now > session.created_at + expiry_hours

\* SessionManager.get_session
get_session(s) ==
    IF s \in DOMAIN sess /\ ~is_expired(sess[s], given.now, session_expiry_hours)
    THEN sess[s]
    ELSE None

ExpiryInit ==
    /\ ServiceInit
    /\ app = None
    /\ given = [now |-> 0, born |-> <<>>]
    /\ returned = None

\* SessionManager.create_session at the current time
create_session_at ==
    /\ budget.create > 0
    /\ budget' = [budget EXCEPT !.create = @ - 1]
    /\ LET s == Len(given.born) + 1
       IN sess' = [i \in DOMAIN sess \cup {s} |->
                      IF i = s
                      THEN [status |-> CREATED, created_at |-> given.now]
                      ELSE sess[i]]
    /\ given' = [given EXCEPT !.born = Append(@, given.now)]
    /\ UNCHANGED <<current_processing, tasks, refines, cancels, response,
                   updates, raised, returned, app>>

\* time passes
tick ==
    /\ given.now < MaxClock
    /\ given' = [given EXCEPT !.now = @ + ClockStep]
    /\ UNCHANGED <<service_vars, returned, app>>

\* a handler moves a session it reached through get_session
session_update_status(s, status) ==
    /\ get_session(s) # None
    /\ sess[s].status # status
    /\ sess' = [sess EXCEPT ![s].status = status]
    /\ UNCHANGED <<current_processing, tasks, refines, cancels, response,
                   updates, raised, budget, given, returned, app>>

\* SessionManager.delete_session
manager_delete_session(s) ==
    /\ s \in DOMAIN sess
    /\ sess' = [i \in DOMAIN sess \ {s} |-> sess[i]]
    /\ UNCHANGED <<current_processing, tasks, refines, cancels, response,
                   updates, raised, budget, given, returned, app>>

\* SessionManager.cleanup_expired_sessions: the sweep of the background task
cleanup_expired_sessions ==
    /\ LET expired_sessions ==
               {s \in DOMAIN sess :
                   is_expired(sess[s], given.now, session_expiry_hours)}
       IN /\ expired_sessions # {}
          /\ sess' = [i \in DOMAIN sess \ expired_sessions |-> sess[i]]
    /\ UNCHANGED <<current_processing, tasks, refines, cancels, response,
                   updates, raised, budget, given, returned, app>>

\* a call of get_session for an id that was handed out
call_get_session(s) ==
    /\ s \in DOMAIN given.born
    /\ returned' = [sid |-> s, at |-> given.now, session |-> get_session(s)]
    /\ UNCHANGED <<service_vars, given, app>>

ExpiryNext ==
    \/ create_session_at
    \/ tick
    \/ \E s \in DOMAIN sess, status \in {PROCESSING, COMPLETED} :
          session_update_status(s, status)
    \/ \E s \in DOMAIN sess : manager_delete_session(s)
    \/ cleanup_expired_sessions
    \/ \E s \in DOMAIN given.born : call_get_session(s)

SpecExpiry == ExpiryInit /\ [][ExpiryNext]_vars

\* ----------------------------------------------------------------------
\* C18: a session created at time T is not returned by get_session at any
\* time later than T + 24h, whatever its status and whether or not the
\* sweep has removed it; before T + 24h a session that was not deleted is
\* returned.
\* ----------------------------------------------------------------------
C18_ExpiredSessionsUnreachable ==
    \A s \in DOMAIN given.born :
        /\ given.now > given.born[s] + 24 => get_session(s) = None
        /\ (given.now < given.born[s] + 24 /\ s \in DOMAIN sess) =>
               /\ get_session(s) # None
               /\ get_session(s) = sess[s]
        /\ (returned # None /\ returned.sid = s) =>
               /\ returned.at > given.born[s] + 24 => returned.session = None
               /\ (returned.at < given.born[s] + 24 /\ s \in DOMAIN sess) =>
                      /\ returned.session # None
                      /\ returned.session.created_at = given.born[s]

C18_Witness ==
    /\ returned # None
    /\ returned.sid = 1
    /\ returned.session = None
    /\ returned.at = given.born[1] + 36
    /\ 1 \in DOMAIN sess
    /\ sess[1].status = COMPLETED

\* ----------------------------------------------------------------------
\* GET /api/sessions/{id}/result : get_final_result.  The handler changes
\* nothing, so it is the answer it computes in the current state.
\* final_input.validation_history is the session's own list.
\* ----------------------------------------------------------------------
exported_history_none(validation_history) == <<>>

\* [{"is_approved": ..., "feedback": ...} for v in validation_history]
exported_history(validation_history) ==
    [i \in 1..Len(validation_history) |->
        [is_approved |-> validation_history[i].is_approved,
         feedback |-> validation_history[i].feedback]]

get_final_result(s) ==
    IF s \notin Sessions THEN [code |-> 404, detail |-> "Session not found"]
    ELSE IF sess[s].final_input = None
    THEN [code |-> 404, detail |-> "Final result not yet available"]
    ELSE [code |-> 200,
          session_id |-> s,
          user_input |-> sess[s].final_input.user_input,
          cp_content |-> sess[s].final_input.cp_content,
          atp_content |-> sess[s].final_input.atp_content,
          validation_iterations |-> sess[s].final_input.validation_iterations,
          validation_history |-> exported_history(sess[s].validation_history)]

FieldTexts == {NoneStr, "", " ", "teks"}

InputRequests ==
    [cp : {""}, atp : {""}, complexity : {20},
     long_sub_topik : {FALSE}, menit : {FALSE}, common_subject : {FALSE},
     nama_guru : FieldTexts, topik : FieldTexts]

\* not text.strip()
Blank(text) == \A i \in 1..Len(text) : SubSeq(text, i, i) = " "

\* SessionValidation.validate_user_input: the error messages
validate_user_input(u) ==
    (IF Blank(u.nama_guru) THEN <<"Nama guru tidak boleh kosong">> ELSE <<>>)
    \o (IF Blank(u.topik) THEN <<"Topik tidak boleh kosong">> ELSE <<>>)

\* UserInputRequest: a str field declared with Field(...) must be in the body
SchemaAccepts(u) == u.nama_guru # NoneStr /\ u.topik # NoneStr

\* POST /api/sessions/{id}/input as the framework serves it: a body the
\* schema refuses is answered 422 before the handler runs
post_user_input(s, u) ==
    IF SchemaAccepts(u)
    THEN submit_user_input(s, u)
    ELSE /\ s \in Sessions
         /\ budget.submit > 0
         /\ budget' = [budget EXCEPT !.submit = @ - 1]
         /\ response' = [op |-> "submit_user_input", sid |-> s, code |-> 422]
         /\ updates' = <<>>
         /\ raised' = NoException
         /\ UNCHANGED <<sess, current_processing, tasks, refines, cancels>>
         /\ UNCHANGED aside_vars

InputNext ==
    \/ create_session
    \/ \E s \in Sessions, u \in InputRequests : post_user_input(s, u)
    \/ \E t \in DOMAIN tasks : process_session_start(t)
    \/ \E t \in DOMAIN tasks : process_session_analysis(t)

SpecInput == Init /\ [][InputNext]_vars

\* a required field that is empty or blank (or absent)
MissingRequired(u) ==
    \/ u.nama_guru \in {NoneStr, "", " "}
    \/ u.topik \in {NoneStr, "", " "}

FeedbackTexts ==
    {"", "ganti", "lebih detail", "kurang lengkap", "harus spesifik",
     "lebih mendalam", "kurang komprehensif", "lebih sederhana",
     "terlalu singkat", "lebih ringkas", "lebih simple", "terlalu basic",
     "detail tapi singkat"}

FeedbackInit ==
    /\ ServiceInit
    /\ app = None
    /\ returned = None
    /\ given \in [feedback : FeedbackTexts \cup {NoneStr},
                  current_strategy : RAGStrategy]

\* the rejection reaches the service (validation.feedback or "")
service_refines ==
    /\ returned = None
    /\ returned' =
          [by |-> "service",
           strategy |-> analyze_feedback_for_strategy(
                            IF given.feedback = NoneStr THEN "" ELSE given.feedback,
                            given.current_strategy)]
    /\ UNCHANGED <<service_vars, given, app>>

\* the rejection reaches the orchestrator's own loop
orchestrator_refines ==
    /\ returned = None
    /\ returned' =
          [by |-> "orchestrator",
           strategy |-> refine_strategy(given.current_strategy,
                                        [is_approved |-> FALSE,
                                         feedback |-> given.feedback])]
    /\ UNCHANGED <<service_vars, given, app>>

FeedbackNext == service_refines \/ orchestrator_refines

SpecFeedback == FeedbackInit /\ [][FeedbackNext]_vars

\* the keyword lists as the specification gives them
SpecDetailWords == {"detail", "lengkap", "spesifik", "mendalam", "komprehensif"}

SpecBrevityWords == {"sederhana", "singkat", "ringkas"}

HasWord(feedback, words) == \E w \in words : Contains(feedback, w)

\* one step along [Simple, Advanced, Graph]; at the end of the sequence
\* staying and wrapping both count
StepFurther(current) ==
    CASE current = SIMPLE -> {ADVANCED}
      [] current = ADVANCED -> {GRAPH}
      [] current = GRAPH -> {GRAPH, SIMPLE}

StepBack(current) ==
    CASE current = GRAPH -> {ADVANCED}
      [] current = ADVANCED -> {SIMPLE}
      [] current = SIMPLE -> {SIMPLE, GRAPH}

\* ----------------------------------------------------------------------
\* C21: for every current strategy of [Simple, Advanced, Graph], a
\* rejection whose feedback contains a detail keyword yields the strategy
\* one step further, and one whose feedback contains a brevity keyword and
\* no detail keyword yields the strategy one step back.
\* ----------------------------------------------------------------------
C21_KeywordsMoveOneStep ==
    (returned # None /\ given.current_strategy \in {SIMPLE, ADVANCED, GRAPH}) =>
        /\ HasWord(given.feedback, SpecDetailWords) =>
               returned.strategy \in StepFurther(given.current_strategy)
        /\ (HasWord(given.feedback, SpecBrevityWords)
            /\ ~HasWord(given.feedback, SpecDetailWords)) =>
               returned.strategy \in StepBack(given.current_strategy)

CyclicSuccessor(current) ==
    CASE current = SIMPLE -> ADVANCED
      [] current = ADVANCED -> GRAPH
      [] current = GRAPH -> SIMPLE

\* ----------------------------------------------------------------------
\* C22 (as stated): a rejection whose feedback contains neither a detail
\* keyword nor a brevity keyword of the specified lists (empty feedback
\* included) yields the cyclic successor of the current strategy in
\* [Simple, Advanced, Graph].
\* ----------------------------------------------------------------------
C22_NoSpecifiedKeywordCycles ==
    (/\ returned # None
     /\ returned.by = "service"
     /\ given.current_strategy \in {SIMPLE, ADVANCED, GRAPH}
     /\ ~HasWord(given.feedback, SpecDetailWords)
     /\ ~HasWord(given.feedback, SpecBrevityWords)) =>
        returned.strategy = CyclicSuccessor(given.current_strategy)

\* ----------------------------------------------------------------------
\* C22 (amended): the same with the brevity keywords the code looks for,
\* which are sederhana, singkat, ringkas, simple and basic.
\* ----------------------------------------------------------------------
C22_NoKeywordCycles ==
    (/\ returned # None
     /\ returned.by = "service"
     /\ given.current_strategy \in {SIMPLE, ADVANCED, GRAPH}
     /\ ~HasWord(given.feedback, SpecDetailWords)
     /\ ~HasWord(given.feedback, SpecBrevityWords \cup {"simple", "basic"})) =>
        returned.strategy = CyclicSuccessor(given.current_strategy)

C22_Witness ==
    /\ returned # None
    /\ returned.by = "service"
    /\ given.feedback = "ganti"
    /\ given.current_strategy = GRAPH
    /\ returned.strategy = SIMPLE

\* ----------------------------------------------------------------------
\* One session whose client validates twice: POST /validate handled while
\* an earlier rejection is still suspended in refine_cp_atp
\* ----------------------------------------------------------------------
ValidationRounds == 2
ValidationSubmits == 2

ValidationInit ==
    /\ sess = <<>>
    /\ current_processing = <<>>
    /\ tasks = <<>>
    /\ refines = <<>>
    /\ cancels = <<>>
    /\ response = NoResponse
    /\ updates = <<>>
    /\ raised = NoException
    /\ budget = [create |-> 1, submit |-> ValidationSubmits, cancel |-> 0,
                 history |-> ValidationRounds]
    /\ given = None
    /\ returned = None
    /\ app = None

ValidationNext ==
    \/ create_session
    \/ \E s \in Sessions, u \in Requests : submit_user_input(s, u)
    \/ \E t \in DOMAIN tasks : process_session_start(t)
    \/ \E t \in DOMAIN tasks : process_session_analysis(t)
    \/ \E t \in DOMAIN tasks : process_session_generated(t)
    \/ \E s \in Sessions, v \in Validations : submit_validation(s, v)
    \/ \E i \in DOMAIN refines : refinement_done(i)

SpecValidation == ValidationInit /\ [][ValidationNext]_vars

task_step(t) ==
    \/ process_session_start(t)
    \/ process_session_analysis(t)
    \/ process_session_generated(t)

QueueSessions == 3
QueueSubmits == 3

QueueInit ==
    /\ sess = <<>>
    /\ current_processing = <<>>
    /\ tasks = <<>>
    /\ refines = <<>>
    /\ cancels = <<>>
    /\ response = NoResponse
    /\ updates = <<>>
    /\ raised = NoException
    /\ budget = [create |-> QueueSessions, submit |-> QueueSubmits, cancel |-> 0,
                 history |-> MaxHistory]
    /\ given = None
    /\ returned = None
    /\ app = None

SpecQueueFair ==
    /\ QueueInit
    /\ [][CapacityNext]_vars
    /\ \A t \in 1..QueueSubmits : WF_vars(t \in DOMAIN tasks /\ task_step(t))

\* start_processing returned True for session s: the endpoint answered 200
Accepted(s) ==
    /\ s \in Sessions
    /\ response = [op |-> "submit_user_input", sid |-> s, code |-> 200]

Settled(s) ==
    /\ s \in Sessions
    /\ sess[s].status \in {USER_VALIDATION, COMPLETED, ERROR}

DIRECT == "direct"
ITERATIVE_REFINEMENT == "iterative_refinement"

\* _analyze_task: missing_components
missing_components(user_input) ==
    (IF user_input.cp THEN <<>> ELSE <<"cp">>)
    \o (IF user_input.atp THEN <<>> ELSE <<"atp">>)

\* _analyze_task with the three scores it computed
_analyze_task(user_input, template_score, advanced_score, graph_score) ==
    [missing_components |-> missing_components(user_input),
     required_rag_strategy |->
         determine_required_strategy(template_score, advanced_score, graph_score),
     confidence_score |->
         Min(Min(template_score, advanced_score),
             Min(graph_score, 100 - 20 * Len(missing_components(user_input)))),
     template_matching_score |-> template_score,
     advanced_rag_score |-> advanced_score,
     graph_rag_score |-> graph_score]

\* (variant: Simple is never offered as a fallback)
fallback_strategies_adaptive_only(selected_strategy, simple_score) ==
    IF selected_strategy # ADAPTIVE THEN <<ADAPTIVE>> ELSE <<>>

\* _select_strategy: fallback_strategies
fallback_strategies(selected_strategy, simple_score) ==
    (IF selected_strategy # ADAPTIVE THEN <<ADAPTIVE>> ELSE <<>>)
    \o (IF selected_strategy # SIMPLE /\ simple_score > 50
        THEN <<SIMPLE>> ELSE <<>>)

\* _select_strategy
_select_strategy(task_analysis) ==
    [selected_strategy |-> task_analysis.required_rag_strategy,
     strategy_scores |-> [simple |-> task_analysis.template_matching_score,
                          advanced |-> task_analysis.advanced_rag_score,
                          graph |-> task_analysis.graph_rag_score,
                          adaptive |-> 80],
     confidence_level |-> confidence_level(task_analysis),
     fallback_strategies |->
         fallback_strategies(task_analysis.required_rag_strategy,
                             task_analysis.template_matching_score)]

\* _determine_orchestration_strategy
_determine_orchestration_strategy(task_analysis, strategy_selection) ==
    IF task_analysis.missing_components # <<>> THEN CP_ATP_GENERATION
    ELSE IF strategy_selection.confidence_level < 70 THEN ITERATIVE_REFINEMENT
    ELSE DIRECT

\* _monitor_quality
_monitor_quality(complete_input, strategy_selection) ==
    LET retrieval_confidence == strategy_selection.confidence_level
        generation_confidence == _calculate_generation_confidence(complete_input)
    IN [retrieval_confidence |-> retrieval_confidence,
        generation_confidence |-> generation_confidence,
        overall_confidence |->
            overall_confidence(retrieval_confidence, generation_confidence)]

\* (variant: the gate also fires at the threshold itself)
quality_check_failed_at_threshold(monitoring_result) ==
    monitoring_result.overall_confidence <= thresholds.overall_confidence

\* orchestrate_complete_input, step 6: the test of the quality gate
quality_check_failed(monitoring_result) ==
    monitoring_result.overall_confidence < thresholds.overall_confidence

RunStart ==
    [pc |-> "start", task_analysis |-> None, strategy_selection |-> None,
     orchestration_strategy |-> NoneStr, monitoring |-> None, events |-> <<>>]

OrchestrateInit ==
    /\ ServiceInit
    /\ app = None
    /\ returned = RunStart
    /\ given \in [template_score : Scores, advanced_score : Scores,
                  graph_score : Scores,
                  user_input : [cp : BOOLEAN, atp : BOOLEAN],
                  complete_input : [cp_long : BOOLEAN, atp_long : {TRUE},
                                    cp_indicators : {0, 4},
                                    atp_indicators : {4}]]

\* steps 1: task_analysis_start, _analyze_task, task_analysis_complete
orchestrate_task_analysis ==
    /\ returned.pc = "start"
    /\ returned' = [returned EXCEPT
           !.pc = "analysed",
           !.task_analysis = _analyze_task(given.user_input, given.template_score,
                                           given.advanced_score, given.graph_score),
           !.events = @ \o <<"task_analysis_start", "task_analysis_complete">>]
    /\ UNCHANGED <<service_vars, given, app>>

\* steps 2 and 3: _select_strategy and _determine_orchestration_strategy
orchestrate_decision ==
    /\ returned.pc = "analysed"
    /\ LET strategy_selection == _select_strategy(returned.task_analysis)
       IN returned' = [returned EXCEPT
              !.pc = "decided",
              !.strategy_selection = strategy_selection,
              !.orchestration_strategy =
                  _determine_orchestration_strategy(returned.task_analysis,
                                                    strategy_selection),
              !.events = @ \o <<"strategy_selection_start",
                                "strategy_selection_complete",
                                "orchestration_decision">>]
    /\ UNCHANGED <<service_vars, given, app>>

\* steps 4 to 6: _execute_orchestration returned the complete input;
\* _monitor_quality, the quality gate, _apply_adaptive_rag
orchestrate_quality ==
    /\ returned.pc = "decided"
    /\ LET monitoring_result ==
               _monitor_quality(given.complete_input, returned.strategy_selection)
       IN returned' = [returned EXCEPT
              !.pc = "returned",
              !.monitoring = monitoring_result,
              !.events = @ \o <<"quality_monitoring">>
                           \o (IF quality_check_failed(monitoring_result)
                               THEN <<"re_routing", "adaptive_rag">>
                               ELSE <<>>)]
    /\ UNCHANGED <<service_vars, given, app>>

\* step 4 raised (the prompt builder failed): the error event, then the
\* exception leaves orchestrate_complete_input
orchestrate_failed ==
    /\ returned.pc = "decided"
    /\ returned.orchestration_strategy # DIRECT
    /\ returned' = [returned EXCEPT !.pc = "raised", !.events = @ \o <<"error">>]
    /\ UNCHANGED <<service_vars, given, app>>

OrchestrateNext ==
    \/ orchestrate_task_analysis
    \/ orchestrate_decision
    \/ orchestrate_quality
    \/ orchestrate_failed

SpecOrchestrate == OrchestrateInit /\ [][OrchestrateNext]_vars

\* ----------------------------------------------------------------------
\* C25: the confidence level of every strategy decision equals the
\* maximum of the three suitability scores (template-matching, advanced,
\* graph) of its task analysis.
\* ----------------------------------------------------------------------
C25_ConfidenceIsMaxOfThree ==
    returned.strategy_selection # None =>
        returned.strategy_selection.confidence_level =
            Max(Max(given.template_score, given.advanced_score), given.graph_score)

\* ----------------------------------------------------------------------
\* C26: the fallback list of every strategy decision is [Adaptive],
\* followed by Simple exactly when the Simple score exceeds 0.5 and Simple
\* is not the selected strategy; Adaptive is in the list whatever strategy
\* was selected.
\* ----------------------------------------------------------------------
SimpleOffered(selection) ==
    IF selection.strategy_scores.simple > 50 /\ selection.selected_strategy # SIMPLE
    THEN <<SIMPLE>> ELSE <<>>

C26_FallbackStartsWithAdaptive ==
    returned.strategy_selection # None =>
        returned.strategy_selection.fallback_strategies =
            <<ADAPTIVE>> \o SimpleOffered(returned.strategy_selection)

\* C26, amended: the fallback list holds Adaptive unless Adaptive is the
\* selected strategy itself, followed by Simple exactly when the Simple
\* score exceeds 0.5 and Simple is not the selected strategy; the selected
\* strategy is never its own fallback.
C26_FallbackExcludesSelected ==
    returned.strategy_selection # None =>
        LET selection == returned.strategy_selection
        IN /\ selection.fallback_strategies =
                  (IF selection.selected_strategy = ADAPTIVE
                   THEN <<>> ELSE <<ADAPTIVE>>) \o SimpleOffered(selection)
           /\ \A i \in DOMAIN selection.fallback_strategies :
                  selection.fallback_strategies[i] # selection.selected_strategy

C26_Witness ==
    /\ returned.strategy_selection # None
    /\ returned.strategy_selection.selected_strategy = ADAPTIVE
    /\ returned.strategy_selection.strategy_scores.simple = 55
    /\ returned.strategy_selection.fallback_strategies = <<SIMPLE>>

\* ----------------------------------------------------------------------
\* C27: a run emits re_routing exactly when the monitored
\* overall_confidence is strictly below the overall threshold (0.8), and
\* always after the quality_monitoring event of that run; a run that has
\* not monitored yet has emitted no re_routing.
\* ----------------------------------------------------------------------
Emitted(event) == \E i \in DOMAIN returned.events : returned.events[i] = event

EmittedAfter(later, earlier) ==
    \A j \in DOMAIN returned.events :
        returned.events[j] = later =>
            \E i \in 1..(j - 1) : returned.events[i] = earlier

C27_ReRoutingExactlyBelowThreshold ==
    /\ returned.monitoring = None => ~Emitted("re_routing")
    /\ returned.monitoring # None =>
          /\ Emitted("quality_monitoring")
          /\ Emitted("re_routing") <=> returned.monitoring.overall_confidence < 80
    /\ EmittedAfter("re_routing", "quality_monitoring")

C27_Witness ==
    /\ returned.pc = "returned"
    /\ returned.monitoring.overall_confidence = 65
    /\ returned.events[Len(returned.events) - 2] = "quality_monitoring"
    /\ returned.events[Len(returned.events) - 1] = "re_routing"

\* ----------------------------------------------------------------------
\* C28: the retrieval confidence fed to the quality gate is never below
\* 0.8, whatever the scores, so re-routing fires if and only if
\* generation_confidence < 0.8.
\* ----------------------------------------------------------------------
C28_GateDecidedByGenerationAlone ==
    /\ returned.strategy_selection # None =>
          returned.strategy_selection.confidence_level >= 80
    /\ returned.monitoring # None =>
          /\ returned.monitoring.retrieval_confidence >= 80
          /\ Emitted("re_routing") <=> returned.monitoring.generation_confidence < 80

C28_Witness ==
    /\ returned.pc = "returned"
    /\ given.template_score = 0
    /\ given.advanced_score = 40
    /\ given.graph_score = 0
    /\ returned.monitoring.retrieval_confidence = 80
    /\ returned.monitoring.generation_confidence = 55
    /\ Emitted("re_routing")

\* ----------------------------------------------------------------------
\* C29: the orchestration path is DIRECT when the request supplies both
\* artifacts and the decision confidence is at least 0.7,
\* CP_ATP_GENERATION when an artifact is missing, ITERATIVE_REFINEMENT
\* when both are supplied and the confidence is below 0.7; and each of the
\* three paths is chosen for some request.
\* ----------------------------------------------------------------------
PathOf(user_input, template_score, advanced_score, graph_score) ==
    LET task_analysis == _analyze_task(user_input, template_score,
                                       advanced_score, graph_score)
    IN _determine_orchestration_strategy(task_analysis,
                                         _select_strategy(task_analysis))

PathChosenForSomeRequest(path) ==
    \E user_input \in [cp : BOOLEAN, atp : BOOLEAN] :
        \E t \in 0..20, a \in 0..20, g \in 0..20 :
            PathOf(user_input, 5 * t, 5 * a, 5 * g) = path

C29_PathFollowsRule ==
    returned.orchestration_strategy # NoneStr =>
        returned.orchestration_strategy =
            IF ~(given.user_input.cp /\ given.user_input.atp) THEN CP_ATP_GENERATION
            ELSE IF returned.strategy_selection.confidence_level >= 70 THEN DIRECT
            ELSE ITERATIVE_REFINEMENT

C29_EveryPathChosen ==
    /\ C29_PathFollowsRule
    /\ PathChosenForSomeRequest(DIRECT)
    /\ PathChosenForSomeRequest(CP_ATP_GENERATION)
    /\ PathChosenForSomeRequest(ITERATIVE_REFINEMENT)

\* ----------------------------------------------------------------------
\* One request seen by both selectors: the session pipeline of
\* RAGProcessingService (_perform_task_analysis, then _generate_cp_atp)
\* and the threshold rule of EnhancedMainOrchestrator.  given holds the
\* request's complexity score and its three suitability scores; returned
\* holds the strategy of the session's draft and the strategy of the rule.
\* ----------------------------------------------------------------------
Complexities == {20, 50, 90}

PipelineInit ==
    /\ ServiceInit
    /\ app = None
    /\ returned = [draft |-> NoneStr, selected |-> NoneStr]
    /\ given \in [user_input : {[cp |-> "", atp |-> "", complexity |-> c,
                                 long_sub_topik |-> FALSE, menit |-> FALSE,
                                 common_subject |-> FALSE] : c \in Complexities},
                  template_score : Scores, advanced_score : Scores,
                  graph_score : Scores]

\* _perform_task_analysis, then _generate_cp_atp with
\* task_analysis["required_rag_strategy"]
session_generates_draft ==
    /\ returned.draft = NoneStr
    /\ LET task_analysis == analyze_task(given.user_input)
           cp_atp_result == generate_cp_atp(given.user_input,
                                            task_analysis.required_rag_strategy)
       IN returned' = [returned EXCEPT !.draft = cp_atp_result.generation_strategy]
    /\ UNCHANGED <<service_vars, given, app>>

\* EnhancedMainOrchestrator._analyze_task and _select_strategy on the same
\* request
selector_selects ==
    /\ returned.selected = NoneStr
    /\ LET task_analysis ==
               _analyze_task([cp |-> given.user_input.cp # "",
                              atp |-> given.user_input.atp # ""],
                             given.template_score, given.advanced_score,
                             given.graph_score)
       IN returned' = [returned EXCEPT
              !.selected = _select_strategy(task_analysis).selected_strategy]
    /\ UNCHANGED <<service_vars, given, app>>

PipelineNext ==
    \/ session_generates_draft
    \/ selector_selects

SpecPipeline == PipelineInit /\ [][PipelineNext]_vars

MaxMessages == 4

\* ProcessingRequest: cp and atp are optional
SocketRequests ==
    [cp : {NoneStr, "CP supplied"}, atp : {NoneStr, "ATP supplied"}]

\* websocket_callback: has_generated_content
has_generated_content(processing_request) ==
    processing_request.cp \in {NoneStr, ""} \/ processing_request.atp \in {NoneStr, ""}

\* ConnectionManager.connect
SocketStart ==
    [pc |-> "receive", status |-> "connected", current_process |-> NoneStr,
     original_input |-> None, generated_cp |-> NoneStr,
     validated_cp |-> NoneStr, validation_status |-> NoneStr,
     sent |-> <<"connected">>, left |-> MaxMessages]

SocketInit ==
    /\ ServiceInit
    /\ given = None
    /\ returned = None
    /\ app = SocketStart

\* start_processing up to the await of orchestrate_complete_input
begin_processing(a, data) ==
    [a EXCEPT !.pc = "orchestrating", !.status = "processing",
              !.current_process = "orchestrated_rag", !.original_input = data]

\* message start_processing
socket_start_processing(data) ==
    /\ app.pc = "receive"
    /\ app.left > 0
    /\ app' = [begin_processing(app, data) EXCEPT
                  !.left = @ - 1, !.sent = <<"processing_started">>]
    /\ UNCHANGED <<service_vars, given, returned>>

\* the prompt builder built the complete input: websocket_callback is
\* called with complete_input_ready; its return leaves the callback only
socket_complete_input_ready ==
    /\ app.pc = "orchestrating"
    /\ has_generated_content(app.original_input)
    /\ app' = [app EXCEPT !.pc = "built", !.generated_cp = "generated CP",
                          !.status = "awaiting_validation",
                          !.sent = <<"cp_atp_generated">>]
    /\ UNCHANGED <<service_vars, given, returned>>

\* orchestrate_complete_input returned: the rest of start_processing
socket_orchestration_returned ==
    /\ \/ app.pc = "built"
       \/ app.pc = "orchestrating" /\ ~has_generated_content(app.original_input)
    /\ \E low \in BOOLEAN :
          app' = [app EXCEPT !.pc = "receive", !.status = "completed",
                             !.current_process = NoneStr,
                             !.sent = <<"quality_monitoring">>
                                      \o (IF low THEN <<"re_routing", "adaptive_rag">>
                                          ELSE <<>>)
                                      \o <<"final_complete_input">>]
    /\ UNCHANGED <<service_vars, given, returned>>

\* orchestrate_complete_input raised (the prompt builder failed)
socket_orchestration_raised ==
    /\ app.pc = "orchestrating"
    /\ has_generated_content(app.original_input)
    /\ app' = [app EXCEPT !.pc = "receive", !.status = "error",
                          !.current_process = NoneStr,
                          !.sent = <<"error", "processing_error">>]
    /\ UNCHANGED <<service_vars, given, returned>>

\* message approve_validation, generate_final_complete_input included
socket_approve_validation(validated_cp) ==
    /\ app.pc = "receive"
    /\ app.left > 0
    /\ app' = [app EXCEPT !.left = @ - 1, !.validated_cp = validated_cp,
                          !.validation_status = "approved",
                          !.status = "completed",
                          !.sent = <<"validation_approved", "final_complete_input">>]
    /\ UNCHANGED <<service_vars, given, returned>>

\* message regenerate_content
socket_regenerate_content ==
    /\ app.pc = "receive"
    /\ app.left > 0
    /\ IF app.original_input # None
       THEN app' = [begin_processing(app, app.original_input) EXCEPT
                       !.left = @ - 1,
                       !.sent = <<"regenerating_content", "processing_started">>]
       ELSE app' = [app EXCEPT !.left = @ - 1,
                       !.sent = <<"regenerating_content", "regeneration_error">>]
    /\ UNCHANGED <<service_vars, given, returned>>

\* message cancel_processing
socket_cancel_processing ==
    /\ app.pc = "receive"
    /\ app.left > 0
    /\ app' = [app EXCEPT !.left = @ - 1, !.status = "cancelled",
                          !.current_process = NoneStr,
                          !.sent = <<"processing_cancelled">>]
    /\ UNCHANGED <<service_vars, given, returned>>

\* message cancel_validation
socket_cancel_validation ==
    /\ app.pc = "receive"
    /\ app.left > 0
    /\ app' = [app EXCEPT !.left = @ - 1, !.status = "cancelled",
                          !.validation_status = "cancelled",
                          !.sent = <<"validation_cancelled">>]
    /\ UNCHANGED <<service_vars, given, returned>>

SocketNext ==
    \/ \E data \in SocketRequests : socket_start_processing(data)
    \/ socket_complete_input_ready
    \/ socket_orchestration_returned
    \/ socket_orchestration_raised
    \/ \E validated_cp \in {"", "generated CP"} : socket_approve_validation(validated_cp)
    \/ socket_regenerate_content
    \/ socket_cancel_processing
    \/ socket_cancel_validation

SpecSocket == SocketInit /\ [][SocketNext]_vars

\* ----------------------------------------------------------------------
\* C31: once generated CP/ATP content awaits validation, the session
\* leaves awaiting_validation for completed, and a final_complete_input
\* is sent, only through an approve_validation message.
\* ----------------------------------------------------------------------
Sends(a, type) == \E i \in DOMAIN a.sent : a.sent[i] = type

C31_NoFinalResultBeforeApproval ==
    [][(app.status = "awaiting_validation" /\ app' # app
        /\ (app'.status = "completed" \/ Sends(app', "final_complete_input")))
          => app'.validation_status = "approved" /\ app'.left = app.left - 1]_vars

\* ----------------------------------------------------------------------
\* CPATPOrchestrator.generate_cp_atp, one generation round.  given holds
\* the strategy, the text the LLM returns for the CP and whether the
\* retriever finds documents; returned holds the position of the round,
\* the calls made on the RAG instance so far and the contents obtained.
\* The query cuts the CP after 500 characters, scaled here to
\* cp_query_limit.
\* ----------------------------------------------------------------------
cp_query_limit == 5

CPTexts == {"", "CP", "CP yang panjang"}

Truncate(text, limit) == IF Len(text) > limit THEN SubSeq(text, 1, limit) ELSE text

\* _construct_atp_query: ... {cp_content[:500]}...
_construct_atp_query(cp_content) ==
    "ATP berdasarkan CP: " \o Truncate(cp_content, cp_query_limit) \o "..."

\* (variant: the additional context carries the CP as cut for the query)
atp_additional_context_truncated(cp_content) ==
    [cp_content |-> Truncate(cp_content, cp_query_limit)]

\* _generate_atp: additional_context={"cp_content": cp_content}
atp_additional_context(cp_content) == [cp_content |-> cp_content]

\* rag_instance.retrieve_documents: the documents found, if any
retrieved_docs(found) == IF found THEN <<"dokumen">> ELSE <<>>

RoundStart ==
    [pc |-> "start", calls |-> <<>>, cp_content |-> NoneStr,
     atp_content |-> NoneStr, result |-> None, error |-> NoneStr]

GenerateInit ==
    /\ ServiceInit
    /\ app = None
    /\ returned = RoundStart
    /\ given \in [strategy : RAGStrategy, cp_text : CPTexts,
                  cp_docs : BOOLEAN, atp_docs : BOOLEAN,
                  user_input : {r \in Requests : ~has_cp_atp(r)}]

\* _select_rag_instance, then _generate_cp up to retrieve_documents
generate_cp_started ==
    /\ returned.pc = "start"
    /\ IF given.strategy \in {SIMPLE, ADVANCED, GRAPH}
       THEN returned' = [returned EXCEPT
                !.pc = "cp_retrieve",
                !.calls = Append(@, [fn |-> "retrieve_documents",
                                     type |-> "cp", query |-> "CP",
                                     context_docs |-> <<>>,
                                     additional_context |-> None])]
       ELSE returned' = [returned EXCEPT !.pc = "raised", !.error = ValueError]
    /\ UNCHANGED <<service_vars, given, app>>

\* retrieve_documents returned: generate_content for the CP is invoked
cp_documents_retrieved ==
    /\ returned.pc = "cp_retrieve"
    /\ returned' = [returned EXCEPT
           !.pc = "cp_generate",
           !.calls = Append(@, [fn |-> "generate_content", type |-> "cp",
                                query |-> "CP",
                                context_docs |-> retrieved_docs(given.cp_docs),
                                additional_context |-> None])]
    /\ UNCHANGED <<service_vars, given, app>>

\* generate_content returned the CP: _generate_atp up to retrieve_documents
cp_generated ==
    /\ returned.pc = "cp_generate"
    /\ returned' = [returned EXCEPT
           !.pc = "atp_retrieve",
           !.cp_content = given.cp_text,
           !.calls = Append(@, [fn |-> "retrieve_documents", type |-> "atp",
                                query |-> _construct_atp_query(given.cp_text),
                                context_docs |-> <<>>,
                                additional_context |-> None])]
    /\ UNCHANGED <<service_vars, given, app>>

\* retrieve_documents returned: generate_content for the ATP is invoked
atp_documents_retrieved ==
    /\ returned.pc = "atp_retrieve"
    /\ returned' = [returned EXCEPT
           !.pc = "atp_generate",
           !.calls = Append(@, [fn |-> "generate_content", type |-> "atp",
                                query |-> _construct_atp_query(returned.cp_content),
                                context_docs |-> retrieved_docs(given.atp_docs),
                                additional_context |->
                                    atp_additional_context(returned.cp_content)])]
    /\ UNCHANGED <<service_vars, given, app>>

\* generate_content returned the ATP: the CPATPResult
atp_generated ==
    /\ returned.pc = "atp_generate"
    /\ returned' = [returned EXCEPT
           !.pc = "returned",
           !.atp_content = "generated ATP",
           !.result = [cp_content |-> returned.cp_content,
                       atp_content |-> "generated ATP",
                       generation_strategy |-> given.strategy,
                       confidence_score |->
                           calculate_confidence_score(given.strategy, given.user_input)]]
    /\ UNCHANGED <<service_vars, given, app>>

\* the pending call on the RAG instance raised: logged and re-raised
rag_call_raised(text) ==
    /\ returned.pc \in {"cp_retrieve", "cp_generate", "atp_retrieve", "atp_generate"}
    /\ returned' = [returned EXCEPT !.pc = "raised", !.error = text]
    /\ UNCHANGED <<service_vars, given, app>>

GenerateNext ==
    \/ generate_cp_started
    \/ cp_documents_retrieved
    \/ cp_generated
    \/ atp_documents_retrieved
    \/ atp_generated
    \/ \E text \in ExceptionTexts \ {""} : rag_call_raised(text)

SpecGenerate == GenerateInit /\ [][GenerateNext]_vars

\* ----------------------------------------------------------------------
\* C32: in every generation round no call for the ATP is made before
\* generate_content for the CP has returned; generate_content for the ATP
\* receives the CP exactly as it was returned as additional context; and
\* a round whose CP generation failed makes no call for the ATP.
\* ----------------------------------------------------------------------
CallsFor(type) == {i \in DOMAIN returned.calls : returned.calls[i].type = type}

C32_PrimaryThenSecondaryVerbatim ==
    /\ \A i \in CallsFor("atp") :
          /\ returned.cp_content # NoneStr
          /\ \E j \in 1..(i - 1) :
                /\ returned.calls[j].fn = "generate_content"
                /\ returned.calls[j].type = "cp"
    /\ \A i \in CallsFor("atp") :
          returned.calls[i].fn = "generate_content" =>
              returned.calls[i].additional_context = [cp_content |-> given.cp_text]
    /\ returned.cp_content = NoneStr => CallsFor("atp") = {}
    /\ returned.cp_content # NoneStr => returned.cp_content = given.cp_text

C32_Witness ==
    /\ returned.pc = "returned"
    /\ given.cp_text = "CP yang panjang"
    /\ returned.calls[3].query = _construct_atp_query(given.cp_text)
    /\ returned.calls[3].query # "ATP berdasarkan CP: CP yang panjang..."
    /\ returned.calls[4].additional_context.cp_content = "CP yang panjang"
    /\ returned.result.cp_content = "CP yang panjang"

\* ----------------------------------------------------------------------
\* C33: each refinement sets the confidence of the result to
\* min(previous confidence + 0.1, 1.0); over any sequence of refinements
\* the confidence never decreases and never exceeds 1.0.
\* ----------------------------------------------------------------------
C33_ConfidenceRisesToCap ==
    [][(returned' # returned) =>
          /\ returned'.confidence_score =
                 IF returned.confidence_score + 10 <= 100
                 THEN returned.confidence_score + 10 ELSE 100
          /\ returned'.confidence_score >= returned.confidence_score
          /\ returned'.confidence_score <= 100]_vars

C33_Witness ==
    /\ given.refinements >= 4
    /\ returned.generation_strategy # ValueError
    /\ returned.cp_content = "refined CP"
    /\ returned.confidence_score = 100

\* ----------------------------------------------------------------------
\* C34: the validation history of a session is append-only: every step
\* leaves the earlier history as a prefix of the later one, an accepted
\* validation appends exactly its own entry, and no other step changes
\* the history.
\* ----------------------------------------------------------------------
IsPrefix(earlier, later) ==
    /\ Len(earlier) <= Len(later)
    /\ \A i \in DOMAIN earlier : later[i] = earlier[i]

C35_CompletedHasFinalResult ==
    \A s \in Sessions :
        sess[s].status = COMPLETED =>
            /\ sess[s].final_input # None
            /\ sess[s].progress_percentage = 100

C35_Witness ==
    \E s \in Sessions :
        /\ sess[s].status = COMPLETED
        /\ sess[s].final_input # None
        /\ sess[s].final_input.cp_content = "generated CP"
        /\ Len(sess[s].validation_history) = 1
        /\ sess[s].validation_history[1].is_approved

\* ----------------------------------------------------------------------
\* C36: a processing-error transition sets status ERROR, raises
\* error_count by exactly one and sets last_error, and leaves
\* progress_percentage, the generated result, the task analysis and the
\* validation history as they were.
\* ----------------------------------------------------------------------
ErrorFrame(before, after, message) ==
    /\ after.status = ERROR
    /\ after.error_count = before.error_count + 1
    /\ after.last_error = message
    /\ after.progress_percentage = before.progress_percentage
    /\ after.cp_atp_result = before.cp_atp_result
    /\ after.task_analysis = before.task_analysis
    /\ after.validation_history = before.validation_history

C36_ErrorChangesOnlyBookkeeping ==
    [][\A s \in Sessions :
          /\ (raised' # NoException /\ raised'.sid = s) =>
                 \E prefix \in {"", "Refinement error: "} :
                     ErrorFrame(sess[s], sess'[s], prefix \o raised'.text)
          /\ (s \in DOMAIN sess' /\ sess'[s].error_count # sess[s].error_count) =>
                 /\ sess'[s].error_count = sess[s].error_count + 1
                 /\ sess'[s].status = ERROR
                 /\ sess'[s].last_error # NoneStr]_vars

C36_Witness ==
    /\ raised # NoException
    /\ raised.where = "refinement"
    /\ sess[raised.sid].status = ERROR
    /\ sess[raised.sid].error_count = 1
    /\ sess[raised.sid].progress_percentage = 45
    /\ sess[raised.sid].cp_atp_result # None
    /\ Len(sess[raised.sid].validation_history) = 1

\* ----------------------------------------------------------------------
\* SessionManager's two registries: sessions (id -> state) and
\* user_sessions (user id -> the ids created for that user, oldest first).
\* delete_session suspends only in the close() of an attached websocket;
\* a call suspended there is kept in closing with the session object it
\* had fetched, and finishes in manager_close_returned.
\* ----------------------------------------------------------------------
Users == {"u1", "u2"}

max_sessions_per_user == 2
MaxCreated == 4
MaxDeletes == 2

ManagerStart ==
    [sessions |-> <<>>, user_sessions |-> <<>>, created |-> 0, deletes |-> 0,
     closing |-> {}, outcome |-> "none"]

ManagerInit ==
    /\ ServiceInit
    /\ given = None
    /\ returned = None
    /\ app = ManagerStart

sessions_of(a, user_id) ==
    IF user_id \in DOMAIN a.user_sessions THEN a.user_sessions[user_id] ELSE <<>>

\* (variant: the oldest session goes only once the limit is exceeded)
session_limit_exceeded(count) == count > max_sessions_per_user

\* user_session_count >= self.max_sessions_per_user
session_limit_reached(count) == count >= max_sessions_per_user

\* list.remove: the first occurrence goes
list_remove(q, x) ==
    LET i == CHOOSE j \in 1..Len(q) : q[j] = x /\ \A k \in 1..(j - 1) : q[k] # x
    IN  RemoveAt(q, i)

\* delete_session from "Remove from user sessions" on: the id leaves the
\* user's list, an empty list leaves user_sessions, and del self.sessions[id]
\* raises KeyError when the id is gone already
finish_delete(a, session_id, session) ==
    LET u == session.user_id
        listed == sessions_of(a, u)
        lists == IF u # NoneStr /\ u \in DOMAIN a.user_sessions
                 THEN LET l == IF \E i \in 1..Len(listed) : listed[i] = session_id
                               THEN list_remove(listed, session_id) ELSE listed
                      IN  IF l = <<>> THEN Drop(a.user_sessions, u)
                          ELSE [a.user_sessions EXCEPT ![u] = l]
                 ELSE a.user_sessions
    IN  IF session_id \in DOMAIN a.sessions
        THEN [a EXCEPT !.user_sessions = lists, !.sessions = Drop(@, session_id),
                       !.outcome = "True"]
        ELSE [a EXCEPT !.user_sessions = lists, !.outcome = "KeyError"]

\* create_session from "Create session state" on
store_session(a, session_id, user_id) ==
    [a EXCEPT !.sessions = @ @@ (session_id :> [user_id |-> user_id,
                                                 websocket_connection |-> FALSE]),
              !.user_sessions =
                  IF user_id = NoneStr THEN @
                  ELSE IF user_id \in DOMAIN @
                       THEN [@ EXCEPT ![user_id] = Append(@, session_id)]
                       ELSE @ @@ (user_id :> <<session_id>>),
              !.outcome = "created"]

\* SessionManager.create_session(user_id); the uuid is a fresh id
registry_create_session(user_id) ==
    /\ app.created < MaxCreated
    /\ LET session_id == app.created + 1
           a == [app EXCEPT !.created = session_id]
           listed == sessions_of(app, user_id)
       IN  IF user_id # NoneStr /\ session_limit_reached(Len(listed))
           THEN LET oldest_session == listed[1]
                IN  IF oldest_session \notin DOMAIN app.sessions
                    THEN app' = store_session(a, session_id, user_id)
                    ELSE IF app.sessions[oldest_session].websocket_connection
                         THEN app' = [a EXCEPT
                                  !.closing = @ \cup
                                      {[caller |-> "create_session", call |-> session_id,
                                        session_id |-> oldest_session,
                                        session |-> app.sessions[oldest_session],
                                        user_id |-> user_id]},
                                  !.outcome = "suspended"]
                         ELSE app' = store_session(
                                  finish_delete(a, oldest_session,
                                                app.sessions[oldest_session]),
                                  session_id, user_id)
           ELSE app' = store_session(a, session_id, user_id)
    /\ UNCHANGED <<service_vars, given, returned>>

\* SessionManager.delete_session(session_id)
registry_delete_session(session_id) ==
    /\ app.deletes < MaxDeletes
    /\ LET a == [app EXCEPT !.deletes = @ + 1]
       IN  IF session_id \notin DOMAIN app.sessions
           THEN app' = [a EXCEPT !.outcome = "False"]
           ELSE IF app.sessions[session_id].websocket_connection
                THEN app' = [a EXCEPT
                         !.closing = @ \cup
                             {[caller |-> "delete_session", call |-> a.deletes,
                               session_id |-> session_id,
                               session |-> app.sessions[session_id],
                               user_id |-> NoneStr]},
                         !.outcome = "suspended"]
                ELSE app' = finish_delete(a, session_id, app.sessions[session_id])
    /\ UNCHANGED <<service_vars, given, returned>>

\* websocket_connection.close() returns (or raises, which is swallowed):
\* the suspended delete_session finishes, and with it the create_session
\* that called it, unless the delete raised
registry_close_returned(p) ==
    /\ p \in app.closing
    /\ LET a == finish_delete([app EXCEPT !.closing = @ \ {p}], p.session_id, p.session)
       IN  app' = IF p.caller = "create_session" /\ a.outcome # "KeyError"
                  THEN store_session(a, p.call, p.user_id)
                  ELSE a
    /\ UNCHANGED <<service_vars, given, returned>>

\* SessionManager.set_websocket_connection(session_id, websocket)
registry_set_websocket_connection(session_id) ==
    /\ session_id \in DOMAIN app.sessions
    /\ ~app.sessions[session_id].websocket_connection
    /\ app' = [app EXCEPT !.sessions[session_id].websocket_connection = TRUE,
                          !.outcome = "attached"]
    /\ UNCHANGED <<service_vars, given, returned>>

ManagerNext ==
    \/ \E user_id \in Users \cup {NoneStr} : registry_create_session(user_id)
    \/ \E session_id \in 1..MaxCreated : registry_delete_session(session_id)
    \/ \E p \in app.closing : registry_close_returned(p)
    \/ \E session_id \in 1..MaxCreated : registry_set_websocket_connection(session_id)

SpecManager == ManagerInit /\ [][ManagerNext]_vars

\* ----------------------------------------------------------------------
\* C37: whatever the sequence and interleaving of create_session and
\* delete_session calls, no user has more than max_sessions_per_user
\* sessions registered, every session id listed for a user exists in the
\* session registry, and a session created for a user who is at the limit
\* takes the place of that user's oldest session.
\* ----------------------------------------------------------------------
Listed(q) == {q[i] : i \in 1..Len(q)}

C37_WithinLimitAndRegistered ==
    \A u \in DOMAIN app.user_sessions :
        /\ Len(app.user_sessions[u]) <= max_sessions_per_user
        /\ Listed(app.user_sessions[u]) \subseteq DOMAIN app.sessions

C37_AtLimitEvictsOldest ==
    \A u \in Users :
        LET before == sessions_of(app, u)
            after == sessions_of(app', u)
        IN  (/\ Len(before) = max_sessions_per_user
             /\ after # <<>>
             /\ after[Len(after)] \notin Listed(before))
                => /\ after = Append(Tail(before), after[Len(after)])
                   /\ before[1] \notin DOMAIN app'.sessions

C37_UserSessionsBounded ==
    [](C37_WithinLimitAndRegistered) /\ [][C37_AtLimitEvictsOldest]_vars

C37_Witness ==
    /\ app.outcome = "created"
    /\ app.deletes = 0
    /\ app.created = max_sessions_per_user + 1
    /\ \E u \in Users :
          /\ u \in DOMAIN app.user_sessions
          /\ Len(app.user_sessions[u]) = max_sessions_per_user
          /\ app.user_sessions[u][1] = 2
          /\ DOMAIN app.sessions = 2..app.created

\* ----------------------------------------------------------------------
\* One session with a websocket attached to it, followed through the
\* service: app.session is the SessionState, app.pc the place where the
\* session's coroutine is suspended, app.sent the message types that
\* reached the websocket during the last step. A message counts as sent
\* in the step that calls send_text.
\* ----------------------------------------------------------------------
ChannelSubmits == 2
MaxSends == 2

ChannelStart ==
    [session |-> NewSession, websocket_connection |-> FALSE, pc |-> "idle",
     feedback |-> "", sent |-> <<>>, working |-> 0, submits |-> ChannelSubmits]

ChannelInit ==
    /\ ServiceInit
    /\ given = None
    /\ returned = None
    /\ app = ChannelStart

\* A handler run starts: nothing sent yet, and send_text will accept the
\* next `working` messages before it raises
begin(a, working) == [a EXCEPT !.sent = <<>>, !.working = working]

\* _send_websocket_update -> SessionManager.broadcast_to_session: nothing
\* without a connection; a send_text that raises removes the connection
send_websocket_update(a, message_type) ==
    IF ~a.websocket_connection THEN a
    ELSE IF a.working > 0
         THEN [a EXCEPT !.sent = Append(@, message_type), !.working = @ - 1]
         ELSE [a EXCEPT !.websocket_connection = FALSE]

\* the handler run suspends or returns
suspend(a, pc) == [a EXCEPT !.pc = pc, !.working = 0]

\* SessionManager.set_websocket_connection
channel_set_websocket_connection ==
    /\ ~app.websocket_connection
    /\ app' = [app EXCEPT !.websocket_connection = TRUE, !.sent = <<>>]
    /\ UNCHANGED <<service_vars, given, returned>>

\* SessionManager.remove_websocket_connection
channel_remove_websocket_connection ==
    /\ app.websocket_connection
    /\ app' = [app EXCEPT !.websocket_connection = FALSE, !.sent = <<>>]
    /\ UNCHANGED <<service_vars, given, returned>>

\* submit_user_input: set_user_input, start_processing creates the task
channel_submit_user_input(u) ==
    /\ app.pc = "idle"
    /\ app.submits > 0
    /\ app' = suspend([begin(app, 0) EXCEPT
                  !.session = update_status([@ EXCEPT !.user_input = u],
                                            set_user_input_call),
                  !.submits = @ - 1], "created")
    /\ UNCHANGED <<service_vars, given, returned>>

\* _process_session up to the sleep of _perform_task_analysis
channel_process_session_start(working) ==
    /\ app.pc = "created"
    /\ app' = suspend(send_websocket_update(
                  [begin(app, working) EXCEPT
                      !.session = update_status(@, start_analysis_call)],
                  "status_update"), "analysis")
    /\ UNCHANGED <<service_vars, given, returned>>

\* _process_session after the sleep, see process_session_analysis
channel_process_session_analysis(working) ==
    /\ app.pc = "analysis"
    /\ LET u == app.session.user_input
           analysed == [app.session EXCEPT !.task_analysis = analyze_task(u)]
       IN  app' = IF has_cp_atp(u)
                  THEN suspend(send_websocket_update(
                           [begin(app, working) EXCEPT
                               !.session = create_final_input(analysed)],
                           "final_result"), "idle")
                  ELSE suspend(send_websocket_update(
                           [begin(app, working) EXCEPT
                               !.session = update_status(analysed, generating_call)],
                           "status_update"), "generating")
    /\ UNCHANGED <<service_vars, given, returned>>

\* _send_cp_atp_for_validation: set_cp_atp_result, then the message
send_cp_atp_for_validation(a, result) ==
    send_websocket_update(
        [a EXCEPT !.session = update_status([@ EXCEPT !.cp_atp_result = result],
                                            set_cp_atp_result_call)],
        "cp_atp_generated")

\* _process_session resumed after generate_cp_atp returned
channel_process_session_generated(working) ==
    /\ app.pc = "generating"
    /\ LET u == app.session.user_input
           result == generate_cp_atp(u, analyze_task(u).required_rag_strategy)
           notified == send_cp_atp_for_validation(begin(app, working), result)
       IN  app' = suspend([notified EXCEPT
                      !.session = update_status(@, waiting_call)], "idle")
    /\ UNCHANGED <<service_vars, given, returned>>

\* _handle_processing_error: the error bookkeeping, then the message
channel_handle_processing_error(a, message) ==
    send_websocket_update(
        [a EXCEPT !.session = handle_processing_error(@, message)], "error")

\* _process_session resumed by an exception out of generate_cp_atp
channel_process_session_failed(text, working) ==
    /\ app.pc = "generating"
    /\ app.session.error_count < MaxErrors
    /\ app' = suspend(channel_handle_processing_error(begin(app, working), text),
                      "idle")
    /\ UNCHANGED <<service_vars, given, returned>>

\* submit_validation: the status test, then handle_user_validation
channel_submit_validation(v, working) ==
    /\ app.pc = "idle"
    /\ app.session.status = USER_VALIDATION
    /\ Len(app.session.validation_history) < MaxHistory
    /\ LET added == [begin(app, working) EXCEPT
                        !.session = update_status(add_validation(@, v),
                            IF v.is_approved THEN approved_call
                            ELSE refinement_needed_call)]
           told == send_websocket_update(added, "status_update")
       IN  app' = IF v.is_approved
                  THEN suspend(send_websocket_update(
                           [told EXCEPT !.session = create_final_input(@)],
                           "final_result"), "idle")
                  ELSE suspend([told EXCEPT
                           !.session = update_status(@, processing_refinement_call),
                           !.feedback = v.feedback], "refining")
    /\ UNCHANGED <<service_vars, given, returned>>

\* _start_refinement_process resumed after refine_cp_atp returned
channel_refinement_done(working) ==
    /\ app.pc = "refining"
    /\ app' = suspend(send_cp_atp_for_validation(
                  [begin(app, working) EXCEPT !.feedback = ""],
                  refine_cp_atp(app.session.cp_atp_result, app.feedback)), "idle")
    /\ UNCHANGED <<service_vars, given, returned>>

\* _start_refinement_process resumed by an exception out of refine_cp_atp
channel_refinement_failed(text, working) ==
    /\ app.pc = "refining"
    /\ app.session.error_count < MaxErrors
    /\ app' = suspend(channel_handle_processing_error(
                  [begin(app, working) EXCEPT !.feedback = ""],
                  "Refinement error: " \o text), "idle")
    /\ UNCHANGED <<service_vars, given, returned>>

\* cancel_processing for a session whose task is live: task.cancel(), await
channel_cancel_processing ==
    /\ app.pc \in {"created", "analysis", "generating"}
    /\ app' = suspend(begin(app, 0), "cancelling")
    /\ UNCHANGED <<service_vars, given, returned>>

\* cancel_processing resumed: the task has ended with CancelledError
channel_cancel_processing_resumed ==
    /\ app.pc = "cancelling"
    /\ app' = suspend([begin(app, 0) EXCEPT
                  !.session = update_status(@,
                      cancelled_call(app.session.progress_percentage))], "idle")
    /\ UNCHANGED <<service_vars, given, returned>>

ChannelNext ==
    \/ channel_set_websocket_connection
    \/ channel_remove_websocket_connection
    \/ \E u \in Requests : channel_submit_user_input(u)
    \/ \E working \in 0..MaxSends : channel_process_session_start(working)
    \/ \E working \in 0..MaxSends : channel_process_session_analysis(working)
    \/ \E working \in 0..MaxSends : channel_process_session_generated(working)
    \/ \E text \in ExceptionTexts, working \in 0..MaxSends :
          channel_process_session_failed(text, working)
    \/ \E v \in Validations, working \in 0..MaxSends :
          channel_submit_validation(v, working)
    \/ \E working \in 0..MaxSends : channel_refinement_done(working)
    \/ \E text \in ExceptionTexts, working \in 0..MaxSends :
          channel_refinement_failed(text, working)
    \/ channel_cancel_processing
    \/ channel_cancel_processing_resumed

SpecChannel == ChannelInit /\ [][ChannelNext]_vars

C38_CancelledIsNotified ==
    [][(/\ app.websocket_connection
        /\ app'.websocket_connection
        /\ app.pc = "cancelling"
        /\ app'.session.status = ERROR)
          => app'.sent # <<>>]_vars

\* ----------------------------------------------------------------------
\* C39: when a search returns zero results, the scores are still computed
\* (each is a number in [0, 1]) and the quantities derived from the results
\* are 0.0: template_matching_score is 0.0, and the dispersion term of the
\* advanced score is 0.0, so that score is made of its other three terms.
\* ----------------------------------------------------------------------
NoResults == [failed |-> FALSE, similarities |-> <<>>]

advanced_score_without_dispersion(q, entities) ==
    clamp((weights.advanced_rag.alpha_1 * Min((q.query_length * 100) \div 30, 100)
           + weights.advanced_rag.alpha_2 * Min((entities * 100) \div 5, 100)
           + weights.advanced_rag.alpha_4 * _calculate_query_specificity(q)) \div 100)

C39_NoResultsDegradeToZero ==
    returned.task_analysis # None =>
        /\ (given.template_search = NoResults \/ given.advanced_search = NoResults) =>
               /\ returned.task_analysis.template_matching_score \in 0..100
               /\ returned.task_analysis.advanced_rag_score \in 0..100
               /\ returned.task_analysis.graph_rag_score \in 0..100
        /\ given.template_search = NoResults =>
               returned.task_analysis.template_matching_score = 0
        /\ given.advanced_search = NoResults =>
               /\ _calculate_document_dispersion(given.advanced_search.similarities) = 0
               /\ returned.task_analysis.advanced_rag_score =
                      advanced_score_without_dispersion(given.query, given.entities)

C39_Witness ==
    /\ returned.task_analysis # None
    /\ given.template_search = NoResults
    /\ given.advanced_search = NoResults
    /\ returned.task_analysis.template_matching_score = 0
    /\ returned.task_analysis.advanced_rag_score > 0
====
